---- MODULE Spec2Model ----
(***************************************************************************)
(* A model of the array data model (src/src/array.rs) and of the dyadic    *)
(* structural algorithms (src/src/algorithm/dyadic/mod.rs) of uiua.        *)
(*                                                                         *)
(* An array is a record [shape, data, meta]:                               *)
(*   shape  a sequence of naturals (Shape),                                *)
(*   data   the row-major element buffer (CowSlice<T>),                    *)
(*   meta   Option<Arc<ArrayMeta>>, an Option being a sequence of length   *)
(*          0 (None) or 1 (Some(x)).                                       *)
(* The structural algorithms are generic in the element type and never     *)
(* inspect an element, so input buffers hold the distinct elements 1..n:   *)
(* every other buffer of the same length is an elementwise image of it.    *)
(***************************************************************************)
EXTENDS Integers, Sequences, FiniteSets, TLC

VARIABLES
    arr,    \* the array the last operation produced or left behind (self)
    pre,    \* the array the last operation was called on
    args,   \* the arguments of the last operation
    op,     \* the name of the last operation
    res,    \* "ok" (Ok / returned), "err" (Err returned), "panic"
    calls,  \* the per-row callback invocations of depth_slices, in order
    orig,   \* the array before the operation before the last one
    operand,  \* the second operand as the last operation left it; after
              \* reshape, the result of derive_shape [ok, axes]
    debug   \* TRUE: built with debug assertions (validate_shape is checked)

vars == <<arr, pre, args, op, res, calls, orig, operand, debug>>

----------------------------------------------------------------------------
(* Bounds of the model *)

MaxRank == 2    \* longest input shape
MaxDim == 3     \* largest input dimension
MaxElems == 6   \* most elements of an input array
MaxOff == 2     \* largest magnitude of a rotation offset

----------------------------------------------------------------------------
(* Options, sequences, arithmetic *)

None == <<>>
Some(x) == <<x>>
IsSome(o) == o # <<>>
Unwrap(o) == o[1]

Min(a, b) == IF a <= b THEN a ELSE b
Max(a, b) == IF a >= b THEN a ELSE b
Abs(x) == IF x < 0 THEN -x ELSE x

RECURSIVE Product(_)
Product(s) == IF s = <<>> THEN 1 ELSE Head(s) * Product(Tail(s))

RECURSIVE Sum(_)
Sum(s) == IF s = <<>> THEN 0 ELSE Head(s) + Sum(Tail(s))

Reverse(s) == [i \in 1..Len(s) |-> s[Len(s) + 1 - i]]

RECURSIVE Flatten(_)
Flatten(ss) == IF ss = <<>> THEN <<>> ELSE Head(ss) \o Flatten(Tail(ss))

Repeat(x, n) == [i \in 1..n |-> x]

Take(s, n) == SubSeq(s, 1, Min(n, Len(s)))
Drop(s, n) == SubSeq(s, n + 1, Len(s))

\* slice::chunks_exact(n): the k-th (1-based) chunk of length n
Chunk(data, n, k) == SubSeq(data, (k - 1) * n + 1, k * n)
NumChunks(data, n) == Len(data) \div n
Chunks(data, n) == [k \in 1..NumChunks(data, n) |-> Chunk(data, n, k)]

Iota(n) == [i \in 1..n |-> i]

RECURSIVE SeqsUpTo(_, _)
SeqsUpTo(S, n) ==
    IF n = 0 THEN {<<>>}
    ELSE LET shorter == SeqsUpTo(S, n - 1)
         IN shorter \cup {<<x>> \o s : x \in S, s \in {t \in shorter : Len(t) = n - 1}}

----------------------------------------------------------------------------
(* The array data model: src/src/array.rs *)

DEFAULT_META == [label |-> None, flags |-> 0, map_keys |-> None]

\* fn validate_shape: the debug assertion product(shape) == data.len()
validate_shape(shape, data) == Product(shape) = Len(data)

\* Array::new: meta is None; panics in a debug build on a shape mismatch
ArrayNew(shape, data) == [shape |-> shape, data |-> data, meta |-> None]

row_count(a) == IF a.shape = <<>> THEN 1 ELSE a.shape[1]
row_len(a) == Product(Drop(a.shape, 1))
rank(a) == Len(a.shape)
element_count(a) == Len(a.data)
meta(a) == IF IsSome(a.meta) THEN Unwrap(a.meta) ELSE DEFAULT_META
map_keys(a) == meta(a).map_keys

\* Array::take_map_keys: get_meta_mut().and_then(|meta| meta.map_keys.take())
take_map_keys(a) ==
    IF IsSome(a.meta)
    THEN [a EXCEPT !.meta = Some([Unwrap(a.meta) EXCEPT !.map_keys = None])]
    ELSE a

\* Array::reset_meta_flags
reset_meta_flags(a) ==
    IF IsSome(a.meta)
    THEN [a EXCEPT !.meta = Some([Unwrap(a.meta) EXCEPT !.flags = 0])]
    ELSE a

\* Array::row_slice
row_slice(a, row) == SubSeq(a.data, row * row_len(a) + 1, (row + 1) * row_len(a))

----------------------------------------------------------------------------
(* Collaborators that live outside src/: Array::reverse_depth and          *)
(* MapKeys::rotate, modelled from their description in the specification.  *)

\* Array::reverse_depth(depth): within every block of product(shape[depth..])
\* elements the sub-rows along axis `depth` are put in reverse order
ReverseData(shape, data, depth) ==
    LET d == Min(depth, Len(shape))
        row_shape == Drop(shape, d)
        chunk_size == Product(row_shape)
    IN IF row_shape = <<>> \/ chunk_size = 0 THEN data
       ELSE LET sub == chunk_size \div row_shape[1]
                n == NumChunks(data, chunk_size)
            IN Flatten([k \in 1..n |-> Flatten(Reverse(Chunks(Chunk(data, chunk_size, k), sub)))])
               \o Drop(data, n * chunk_size)

reverse_depth(a, depth) == [a EXCEPT !.data = ReverseData(a.shape, a.data, depth)]

\* MapKeys::rotate(by): the key rows are rotated cyclically by `by`
MapKeysRotate(keys, by) ==
    IF Len(keys) = 0 THEN keys
    ELSE [i \in 1..Len(keys) |-> keys[((i - 1 + by) % Len(keys)) + 1]]

----------------------------------------------------------------------------
(* reshape_scalar and depth_slices: src/src/algorithm/dyadic/mod.rs *)

\* Result<isize, bool>: Ok(n) a dimension, Err(rev) an inferred dimension
Ok(n) == [ok |-> TRUE, v |-> n]
Err(rev) == [ok |-> FALSE, rev |-> rev]

\* Array::reshape_scalar(count)
reshape_scalar(self, count) ==
    LET a == take_map_keys(self)
    IN IF count.ok
       THEN IF count.v = 0
            THEN [a EXCEPT !.data = <<>>, !.shape = <<0>> \o a.shape]
            ELSE LET n == Abs(count.v)
                     rep == [a EXCEPT !.data = Flatten(Repeat(a.data, n))]
                     rev == IF count.v < 0 THEN reverse_depth(rep, 0) ELSE rep
                 IN [rev EXCEPT !.shape = <<n>> \o rev.shape]
       ELSE IF count.rev THEN reverse_depth(a, 0) ELSE a

\* a_prefix.iter().zip(b_prefix).all(|(a, b)| a == b)
PrefixesAgree(ash, a_depth, bsh, b_depth) ==
    \A i \in 1..Min(a_depth, b_depth) : ash[i] = bsh[i]

\* while shape.starts_with(&[1]) { if depth == 0 { break } shape.remove(0); depth -= 1 }
RECURSIVE StripOnes(_, _)
StripOnes(shape, depth) ==
    IF shape # <<>> /\ shape[1] = 1 /\ depth # 0
    THEN StripOnes(Tail(shape), depth - 1)
    ELSE [shape |-> shape, depth |-> depth]

\* for dim in dims { x.reshape_scalar(Ok(dim)) }
RECURSIVE Broadcast(_, _)
Broadcast(x, dims) ==
    IF dims = <<>> THEN x
    ELSE Broadcast(reshape_scalar(x, Ok(Head(dims))), Tail(dims))

\* depth_slices, match a_depth.cmp(&b_depth): the shallower operand is
\* broadcast with the leading dimensions of the deeper one, last of them first
DepthBroadcast(a, b, a_depth, b_depth) ==
    IF a_depth < b_depth
    THEN [status |-> "ok", a |-> Broadcast(a, Reverse(Take(b.shape, b_depth - a_depth))),
          b |-> b, a_depth |-> b_depth, b_depth |-> b_depth]
    ELSE IF a_depth > b_depth
    THEN [status |-> "ok", a |-> a,
          b |-> Broadcast(b, Reverse(Take(a.shape, a_depth - b_depth))),
          a_depth |-> a_depth, b_depth |-> a_depth]
    ELSE [status |-> "ok", a |-> a, b |-> b, a_depth |-> a_depth, b_depth |-> b_depth]

\* depth_slices, the second prefix check, on the stripped operands
DepthRecheck(a, b, a_depth, b_depth) ==
    IF ~PrefixesAgree(a.shape, a_depth, b.shape, b_depth)
    THEN [status |-> "err", a |-> a, b |-> b, a_depth |-> a_depth, b_depth |-> b_depth]
    ELSE DepthBroadcast(a, b, a_depth, b_depth)

\* depth_slices, the branch taken when the prefixes disagree: leading 1s are
\* stripped from both operands (from the shape of self for good)
DepthStrip(self, other, sa, sb) ==
    DepthRecheck([self EXCEPT !.shape = sa.shape], [other EXCEPT !.shape = sb.shape],
                 sa.depth, sb.depth)

\* depth_slices with the depths already clamped to the ranks
DepthClamped(self, other, a_depth, b_depth) ==
    IF PrefixesAgree(self.shape, a_depth, other.shape, b_depth)
    THEN DepthBroadcast(self, other, a_depth, b_depth)
    ELSE DepthStrip(self, other, StripOnes(self.shape, a_depth), StripOnes(other.shape, b_depth))

\* Array::depth_slices up to the row loop: the operands after stripping and
\* broadcasting, their depths, and whether the prefix check failed
DepthPrepare(self, other, depth_a, depth_b) ==
    DepthClamped(self, other, Min(depth_a, rank(self)), Min(depth_b, rank(other)))

\* the row pairs the loop of depth_slices visits:
\* a.chunks_exact_mut(a_row_len).zip(b.chunks_exact(b_row_len))
DepthRows(p) ==
    LET a_row_shape == Drop(p.a.shape, p.a_depth)
        b_row_shape == Drop(p.b.shape, p.b_depth)
        a_row_len == Product(a_row_shape)
        b_row_len == Product(b_row_shape)
    IN IF a_row_len = 0 \/ b_row_len = 0 THEN <<>>
       ELSE [k \in 1..Min(NumChunks(p.a.data, a_row_len), NumChunks(p.b.data, b_row_len)) |->
                [ash |-> a_row_shape, a |-> Chunk(p.a.data, a_row_len, k),
                 bsh |-> b_row_shape, b |-> Chunk(p.b.data, b_row_len, k)]]

----------------------------------------------------------------------------
(* rotate: src/src/algorithm/dyadic/mod.rs *)

\* rotate with the split point taken from the magnitude of the offset
RECURSIVE rotate_unsigned(_, _, _)
rotate_unsigned(by, shape, data) ==
    IF by = <<>> \/ shape = <<>> THEN data
    ELSE IF shape[1] = 0 THEN data
    ELSE LET rc == shape[1]
             rl == Product(Tail(shape))
             mid == Abs(by[1]) % rc
             whole == SubSeq(data, mid * rl + 1, Len(data)) \o SubSeq(data, 1, mid * rl)
             index == Tail(by)
             sh == Tail(shape)
         IN IF index = <<>> \/ sh = <<>> THEN whole
            ELSE Flatten([k \in 1..NumChunks(whole, rl) |->
                             rotate_unsigned(index, sh, Chunk(whole, rl, k))])

\* rotate that turns the leading axis only and leaves the cells as they are
rotate_outer(by, shape, data) ==
    IF by = <<>> \/ shape = <<>> THEN data
    ELSE IF shape[1] = 0 THEN data
    ELSE SubSeq(data, ((shape[1] + by[1]) % shape[1]) * Product(Tail(shape)) + 1, Len(data))
         \o SubSeq(data, 1, ((shape[1] + by[1]) % shape[1]) * Product(Tail(shape)))

\* fn rotate(by, shape, data): reverse left, reverse right, reverse all, then
\* recurse into the cells with the remaining index components.  depth_slices
\* calls it only with rows that have elements, so row_len is never 0 here.
RECURSIVE rotate(_, _, _)
rotate(by, shape, data) ==
    IF by = <<>> \/ shape = <<>> THEN data
    ELSE IF shape[1] = 0 THEN data
    ELSE LET rc == shape[1]
             rl == Product(Tail(shape))
             offset == by[1]
             mid == (rc + offset) % rc
             left == SubSeq(data, 1, mid * rl)
             right == SubSeq(data, mid * rl + 1, Len(data))
             whole == Reverse(Reverse(left) \o Reverse(right))
             index == Tail(by)
             sh == Tail(shape)
         IN IF index = <<>> \/ sh = <<>> THEN whole
            ELSE Flatten([k \in 1..NumChunks(whole, rl) |-> rotate(index, sh, Chunk(whole, rl, k))])

\* fill_shift that overwrites the outermost axis only
fill_shift_outer(by, shape, data, fill) ==
    IF by = <<>> \/ shape = <<>> THEN data
    ELSE IF shape[1] = 0 THEN data
    ELSE LET offset == by[1]
             abs_offset == Abs(offset) * Product(Tail(shape))
             data_len == Len(data)
         IN IF offset > 0
            THEN [i \in 1..data_len |->
                     IF i > Max(data_len - abs_offset, 0) THEN fill ELSE data[i]]
            ELSE IF offset < 0
            THEN [i \in 1..data_len |->
                     IF i <= Min(abs_offset, data_len) THEN fill ELSE data[i]]
            ELSE data

\* fn fill_shift(by, shape, data, fill)
RECURSIVE fill_shift(_, _, _, _)
fill_shift(by, shape, data, fill) ==
    IF by = <<>> \/ shape = <<>> THEN data
    ELSE IF shape[1] = 0 THEN data
    ELSE LET offset == by[1]
             rl == Product(Tail(shape))
             abs_offset == Abs(offset) * rl
             data_len == Len(data)
             shifted ==
                 IF offset > 0
                 THEN [i \in 1..data_len |->
                          IF i > Max(data_len - abs_offset, 0) THEN fill ELSE data[i]]
                 ELSE IF offset < 0
                 THEN [i \in 1..data_len |->
                          IF i <= Min(abs_offset, data_len) THEN fill ELSE data[i]]
                 ELSE data
             index == Tail(by)
             sh == Tail(shape)
         IN IF index = <<>> \/ sh = <<>> THEN shifted
            ELSE Flatten([k \in 1..NumChunks(shifted, rl) |->
                             fill_shift(index, sh, Chunk(shifted, rl, k), fill)])

\* the closure's checks without the rank check
RotateRowFailsLengthOnly(row) == Len(row.b) > Len(row.ash)

\* the key offset taken from the last index component
KeyOffsetLast(by) == by.data[Len(by.data)]
\* let by = by.data[0]
KeyOffset(by) == by.data[1]

\* the closure rotate_depth hands to depth_slices
RotateRowFails(row) == Len(row.bsh) > 1 \/ Len(row.b) > Len(row.ash)
RotateRow(row, fill) ==
    LET r == rotate(row.b, row.ash, row.a)
    IN IF IsSome(fill) THEN fill_shift(row.b, row.ash, r, Unwrap(fill)) ELSE r

\* rotate_depth after depth_slices: if depth == 0 the map-keys are rotated by
\* by.data[0], which panics on an index without elements
RotateKeys(a, by, depth, rows) ==
    IF depth = 0 /\ IsSome(map_keys(a))
    THEN IF by.data = <<>>
         THEN [res |-> "panic", arr |-> a, calls |-> rows]
         ELSE [res |-> "ok", calls |-> rows,
               arr |-> [a EXCEPT !.meta = Some([Unwrap(a.meta) EXCEPT
                           !.map_keys = Some(MapKeysRotate(Unwrap(map_keys(a)), KeyOffset(by)))])]]
    ELSE [res |-> "ok", arr |-> a, calls |-> rows]

\* if filled { self.reset_meta_flags() }
RotateFilled(a, filled) == IF filled THEN reset_meta_flags(a) ELSE a

\* the rows of self after the closure has run on every pair of rows
RotatedData(a, a_row_len, rows, fill) ==
    Flatten([k \in 1..Len(rows) |-> RotateRow(rows[k], fill)])
        \o Drop(a.data, Len(rows) * a_row_len)

\* rotate_depth from the row loop of depth_slices on
RotateRows(p, rows, by, depth, fill) ==
    IF Len(rows) > 0 /\ RotateRowFails(rows[1])
    THEN [res |-> "err", arr |-> p.a, calls |-> <<rows[1]>>]
    ELSE RotateKeys(
            RotateFilled([p.a EXCEPT !.data = RotatedData(p.a, Product(Drop(p.a.shape, p.a_depth)),
                                                          rows, fill)],
                         Len(rows) > 0 /\ IsSome(fill)),
            by, depth, rows)

\* rotate_depth once depth_slices has prepared the operands
RotatePrepared(p, by, depth, fill) ==
    IF p.status = "err" THEN [res |-> "err", arr |-> p.a, calls |-> <<>>]
    ELSE RotateRows(p, DepthRows(p), by, depth, fill)

\* Array::rotate_depth(by, depth, by_depth, env); fill is env.scalar_fill::<T>()
rotate_depth(self, by, depth, by_depth, fill) ==
    RotatePrepared(DepthPrepare(self, by, depth, by_depth), by, depth, fill)

----------------------------------------------------------------------------
(* reshape: src/src/algorithm/dyadic/mod.rs *)

CeilDiv(a, b) == (a + b - 1) \div b

\* the closure derive_len: ceil or floor of data_len as f32 / other_len as f32.
\* Both conversions and the rounded quotient are exact below 2^24 elements,
\* which every array of the model is.
derive_len(has_fill, data_len, other_len) ==
    IF has_fill THEN CeilDiv(data_len, other_len) ELSE data_len \div other_len

\* derive_len(data_len, p as usize) for a signed product p: a negative p wraps
\* to at least 2^63, more than any data_len, so the quotient lies in [0, 1)
derive_len_cast(has_fill, data_len, p) ==
    IF p >= 0 THEN derive_len(has_fill, data_len, p)
    ELSE IF has_fill /\ data_len > 0 THEN 1 ELSE 0

DimValues(dims) == [i \in 1..Len(dims) |-> dims[i].v]
InfCount(dims) == Cardinality({i \in 1..Len(dims) : ~dims[i].ok})
RevMul(dim) == IF dim.rev THEN -1 ELSE 1

\* fn derive_shape(shape, dims, has_fill, env)
derive_shape(shape, dims, has_fill) ==
    LET total == Product(shape)
    IN IF InfCount(dims) = 0 THEN [ok |-> TRUE, axes |-> DimValues(dims)]
       ELSE IF InfCount(dims) > 1 THEN [ok |-> FALSE, axes |-> <<>>]
       ELSE IF ~dims[1].ok
       THEN LET rest == DimValues(Tail(dims))
                shape_non_leading_len == Product(rest)
            IN IF shape_non_leading_len = 0 THEN [ok |-> FALSE, axes |-> <<>>]
               ELSE [ok |-> TRUE,
                     axes |-> <<RevMul(dims[1]) * derive_len_cast(has_fill, total, shape_non_leading_len)>>
                              \o rest]
       ELSE IF ~dims[Len(dims)].ok
       THEN LET front == DimValues(SubSeq(dims, 1, Len(dims) - 1))
                shape_non_trailing_len == Abs(Product(front))
            IN IF shape_non_trailing_len = 0 THEN [ok |-> FALSE, axes |-> <<>>]
               ELSE [ok |-> TRUE,
                     axes |-> front \o
                              <<RevMul(dims[Len(dims)]) * derive_len(has_fill, total, shape_non_trailing_len)>>]
       ELSE LET inf_index == CHOOSE i \in 1..Len(dims) : ~dims[i].ok
                front == DimValues(SubSeq(dims, 1, inf_index - 1))
                back == DimValues(SubSeq(dims, inf_index + 1, Len(dims)))
                front_len == Abs(Product(front))
                back_len == Abs(Product(back))
            IN IF front_len = 0 \/ back_len = 0 THEN [ok |-> FALSE, axes |-> <<>>]
               ELSE [ok |-> TRUE,
                     axes |-> front
                              \o <<RevMul(dims[inf_index]) * derive_len(has_fill, total, front_len * back_len)>>
                              \o back]

\* Vec::truncate cutting one element too many
TruncateShort(data, target_len) == Take(data, target_len - 1)
\* self.data.truncate(target_len)
Truncate(data, target_len) == Take(data, target_len)

\* the tiling that repeats the whole buffer and drops the final partial copy
TileWhole(data, target_len) ==
    LET start == Len(data)
    IN data \o Flatten(Repeat(data, (target_len - start) \div start))
\* the tiling branch of reshape: the whole buffer `additional / start` times
\* more, then its first `additional % start` elements
Tile(data, target_len) ==
    LET start == Len(data)
        additional == target_len - start
    IN data \o Flatten(Repeat(data, additional \div start)) \o Take(data, additional % start)

RECURSIVE ReverseAxes(_, _)
ReverseAxes(a, axes) ==
    IF axes = <<>> THEN a ELSE ReverseAxes(reverse_depth(a, Head(axes)), Tail(axes))

\* the 0-based positions of the negative axes, in increasing order
RECURSIVE ReversedAxes(_, _)
ReversedAxes(axes, i) ==
    IF i > Len(axes) THEN <<>>
    ELSE (IF axes[i] < 0 THEN <<i - 1>> ELSE <<>>) \o ReversedAxes(axes, i + 1)

\* Array::reshape(dims, env); fill is env.scalar_fill::<T>()
reshape(self, dims, fill, dbg) ==
    LET d == derive_shape(self.shape, dims, IsSome(fill))
    IN IF ~d.ok THEN [res |-> "err", arr |-> self, axes |-> d]
       ELSE
       LET axes == d.axes
           a == IF axes = <<>> \/ Abs(axes[1]) # row_count(self)
                THEN take_map_keys(self) ELSE self
           shape == [i \in 1..Len(axes) |-> Abs(axes[i])]
           target_len == Product(shape)
           len == Len(a.data)
       IN IF len < target_len /\ fill = None /\ len = 0
          THEN [res |-> "err", arr |-> a, axes |-> d]
          ELSE LET data ==
                       IF len < target_len
                       THEN IF IsSome(fill) THEN a.data \o Repeat(Unwrap(fill), target_len - len)
                            ELSE IF rank(a) = 0 THEN Repeat(a.data[1], target_len)
                            ELSE Tile(a.data, target_len)
                       ELSE Truncate(a.data, target_len)
                   b == [a EXCEPT !.data = data, !.shape = shape]
               IN IF dbg /\ ~validate_shape(b.shape, b.data)
                  THEN [res |-> "panic", arr |-> b, axes |-> d]
                  ELSE [res |-> "ok", arr |-> ReverseAxes(b, ReversedAxes(axes, 1)), axes |-> d]

----------------------------------------------------------------------------
(* rerank and keep: src/src/algorithm/dyadic/mod.rs *)

\* rerank that merges one dimension more for a non-negative rank below the
\* rank of the array
rerank_merge_more(self, irank) ==
    LET a == take_map_keys(self)
        shape == a.shape
        r == Abs(irank)
    IN IF irank >= 0
       THEN IF r >= Len(shape)
            THEN [res |-> "ok", arr |-> [a EXCEPT !.shape = Repeat(1, r - Len(shape) + 1) \o shape]]
            ELSE LET mid == Len(shape) - r + 1
                 IN [res |-> "ok",
                     arr |-> [a EXCEPT !.shape = <<Product(Take(shape, mid))>> \o Drop(shape, mid)]]
       ELSE IF r > Len(shape) THEN [res |-> "err", arr |-> a]
       ELSE [res |-> "ok",
             arr |-> [a EXCEPT !.shape = <<Product(Take(shape, r))>> \o Drop(shape, r)]]

\* Value::rerank(rank, env), irank being rank.as_int
rerank(self, irank) ==
    LET a == take_map_keys(self)
        shape == a.shape
        r == Abs(irank)
    IN IF irank >= 0
       THEN IF r >= Len(shape)
            THEN [res |-> "ok", arr |-> [a EXCEPT !.shape = Repeat(1, r - Len(shape) + 1) \o shape]]
            ELSE LET mid == Len(shape) - r
                 IN [res |-> "ok",
                     arr |-> [a EXCEPT !.shape = <<Product(Take(shape, mid))>> \o Drop(shape, mid)]]
       ELSE IF r > Len(shape) THEN [res |-> "err", arr |-> a]
       ELSE [res |-> "ok",
             arr |-> [a EXCEPT !.shape = <<Product(Take(shape, r))>> \o Drop(shape, r)]]

\* Array::scalar_keep(count)
scalar_keep(self, count) ==
    IF rank(self) = 0
    THEN [self EXCEPT !.shape = <<count>>, !.data = Repeat(self.data[1], count)]
    ELSE IF count = 0
    THEN [self EXCEPT !.data = <<>>, !.shape[1] = 0]
    ELSE IF count = 1 THEN self
    ELSE [self EXCEPT
            !.data = Flatten([i \in 1..(row_count(self) * count) |->
                                row_slice(self, (i - 1) \div count)]),
            !.shape[1] = self.shape[1] * count]

\* counts.iter().chain(fill data .cycle()).take(row_count)
KeepCounts(counts, fill, n) ==
    LET extra == IF IsSome(fill) THEN Unwrap(fill).data ELSE <<>>
        len == IF extra = <<>> THEN Min(n, Len(counts)) ELSE n
    IN [i \in 1..len |->
          IF i <= Len(counts) THEN counts[i]
          ELSE extra[((i - Len(counts) - 1) % Len(extra)) + 1]]

\* the closure get_count of list_keep, i counted from 0
get_count(counts, fill, i) ==
    IF i < Len(counts) THEN counts[i + 1]
    ELSE Unwrap(fill).data[((i - Len(counts)) % row_count(Unwrap(fill))) + 1]

\* self.data.retain(..): element elem_idx stays when the count of its row is 1
RECURSIVE Retain(_, _, _, _, _)
Retain(data, elem_idx, row_len_, counts, fill) ==
    IF elem_idx >= Len(data) THEN <<>>
    ELSE (IF get_count(counts, fill, elem_idx \div row_len_) = 1
          THEN <<data[elem_idx + 1]>> ELSE <<>>)
         \o Retain(data, elem_idx + 1, row_len_, counts, fill)

\* for j in 0..row_len { data[dest * row_len + j] = data[src * row_len + j] }
CopyRow(data, src, dest, row_len_) ==
    [i \in 1..Len(data) |->
        IF i - 1 >= dest * row_len_ /\ i - 1 < (dest + 1) * row_len_
        THEN data[i - dest * row_len_ + src * row_len_]
        ELSE data[i]]

RECURSIVE CopyRows(_, _, _, _, _, _)
CopyRows(data, src, dest, c, count, row_len_) ==
    IF c >= count THEN data
    ELSE CopyRows(CopyRow(data, src, dest + c, row_len_), src, dest, c + 1, count, row_len_)

\* the rebuilding branch: truncate to the rows written, then append the rows
\* from r on out of the old buffer
RECURSIVE KeepRebuild(_, _, _, _, _, _, _, _)
KeepRebuild(acc, old_data, r, src, row_count_, row_len_, counts, fill) ==
    IF r >= row_count_ THEN acc
    ELSE KeepRebuild(
            acc \o Flatten(Repeat(SubSeq(old_data, src * row_len_ + 1, (src + 1) * row_len_),
                                  get_count(counts, fill, r))),
            old_data, r + 1, src + 1, row_count_, row_len_, counts, fill)

\* the block 'efficient of list_keep: rows are copied downwards in place until
\* one would overwrite a row not yet read
RECURSIVE KeepInPlace(_, _, _, _, _, _, _, _)
KeepInPlace(data, r, src, dest, row_count_, row_len_, counts, fill) ==
    IF r >= row_count_ THEN data
    ELSE LET count == get_count(counts, fill, r)
         IN IF count = 0
            THEN KeepInPlace(data, r + 1, src + 1, dest, row_count_, row_len_, counts, fill)
            ELSE IF dest + count > src + 1
            THEN KeepRebuild(Take(data, dest * row_len_), data, r, src,
                             row_count_, row_len_, counts, fill)
            ELSE KeepInPlace(
                    CopyRows(data, src, dest, IF src = dest THEN 1 ELSE 0, count, row_len_),
                    r + 1, src + 1, dest + count, row_count_, row_len_, counts, fill)

\* env.num_array_fill() checked for negative or fractional values
KeepFillOk(fill) ==
    IsSome(fill) /\ \A i \in 1..Len(Unwrap(fill).data) : Unwrap(fill).data[i] >= 0

\* get_count on a row past the counts panics when the fill has no rows (% 0)
\* or fewer elements than rows (index out of bounds)
KeepFillFaults(fill) ==
    row_count(Unwrap(fill)) = 0 \/ row_count(Unwrap(fill)) > Len(Unwrap(fill).data)

\* Array::list_keep(counts, env); fill is env.num_array_fill().  The final
\* validate_shape is a debug assertion; the result is given as a release
\* build returns it.  self.shape[0] = sum has no element to assign for rank 0.
list_keep(self, counts, fill) ==
    IF Len(counts) > row_count(self) THEN [res |-> "err", arr |-> self]
    ELSE
    LET a == take_map_keys(self)
        needs_fill == Len(counts) < row_count(a)
    IN IF needs_fill /\ ~KeepFillOk(fill) THEN [res |-> "err", arr |-> a]
       ELSE
       LET f == IF needs_fill THEN fill ELSE None
           taken == KeepCounts(counts, f, row_count(a))
           sum == Sum(taken)
           all_boolean == \A i \in 1..Len(taken) : taken[i] <= 1
           row_len_ == row_len(a)
           data == IF all_boolean THEN Retain(a.data, 0, row_len_, counts, f)
                   ELSE Take(KeepInPlace(a.data, 0, 0, 0, row_count(a), row_len_, counts, f),
                             sum * row_len_)
           b == [a EXCEPT !.data = data]
       IN IF needs_fill /\ KeepFillFaults(f) /\ (~all_boolean \/ a.data # <<>>)
          THEN [res |-> "panic", arr |-> a]
          ELSE IF rank(a) = 0 THEN [res |-> "panic", arr |-> b]
          ELSE [res |-> "ok", arr |-> [b EXCEPT !.shape[1] = sum]]

\* Array::row(row): the row as an array of its own (metadata aside)
RowArray(a, row) ==
    IF rank(a) = 0 THEN [shape |-> <<>>, data |-> a.data]
    ELSE [shape |-> Tail(a.shape), data |-> row_slice(a, row)]

\* Array::from_row_arrays, which lives outside src/: the rows stacked along a
\* new leading axis; with no row at all, the default array
FromRowArrays(rows) ==
    IF rows = <<>> THEN [shape |-> <<0>>, data |-> <<>>, meta |-> None]
    ELSE [shape |-> <<Len(rows)>> \o rows[1].shape,
          data |-> Flatten([i \in 1..Len(rows) |-> rows[i].data]),
          meta |-> None]

\* the loop of undo_keep over counts.iter().zip(into.into_rows()): k is the
\* 1-based position in the zip, t the rows of self taken so far
RECURSIVE UndoRows(_, _, _, _, _, _)
UndoRows(self, counts, into, k, t, new_rows) ==
    IF k > Min(Len(counts), row_count(into)) THEN [ok |-> TRUE, rows |-> new_rows]
    ELSE IF counts[k] = 0
    THEN UndoRows(self, counts, into, k + 1, t, Append(new_rows, RowArray(into, k - 1)))
    ELSE IF t >= row_count(self) THEN [ok |-> FALSE, rows |-> new_rows]
    ELSE IF RowArray(self, t).shape # RowArray(into, k - 1).shape
    THEN [ok |-> FALSE, rows |-> new_rows]
    ELSE UndoRows(self, counts, into, k + 1, t + 1, Append(new_rows, RowArray(self, t)))

\* the result of the loop handed to from_row_arrays
UndoCollected(self, r) ==
    IF r.ok THEN [res |-> "ok", arr |-> FromRowArrays(r.rows)]
    ELSE [res |-> "err", arr |-> self]

\* Array::undo_keep(counts, into, env)
undo_keep(self, counts, into) ==
    IF \E i \in 1..Len(counts) : counts[i] > 1 THEN [res |-> "err", arr |-> self]
    ELSE UndoCollected(self, UndoRows(self, counts, into, 1, 0, <<>>))

----------------------------------------------------------------------------
(* windows: src/src/algorithm/dyadic/mod.rs *)

\* the odometer step both loops of windows end with: from the last axis
\* backwards, an index at its limit goes back to 0 and the next one is tried;
\* wrapped when every index was at its limit
RECURSIVE Advance(_, _, _)
Advance(v, limit, i) ==
    IF i = 0 THEN [v |-> v, wrapped |-> TRUE]
    ELSE IF v[i] = limit[i] THEN Advance([v EXCEPT ![i] = 0], limit, i - 1)
    ELSE [v |-> [v EXCEPT ![i] = v[i] + 1], wrapped |-> FALSE]

\* src_index += (c + i) * stride; stride *= s, over the axes in reverse
RECURSIVE SrcIndex(_, _, _, _, _)
SrcIndex(corner, curr, shape, i, stride) ==
    IF i = 0 THEN 0
    ELSE (corner[i] + curr[i]) * stride + SrcIndex(corner, curr, shape, i - 1, stride * shape[i])

\* the loop 'items: dst_slice[k] = self.data[src_index], k += 1, next item
RECURSIVE WindowItems(_, _, _, _, _, _)
WindowItemsNext(self, true_size, corner, adv, dst, k) ==
    IF adv.wrapped THEN [ok |-> TRUE, dst |-> dst, k |-> k]
    ELSE WindowItems(self, true_size, corner, adv.v, dst, k)

WindowItemsWrite(self, true_size, corner, curr, dst, k, src_index) ==
    IF k >= Len(dst) \/ src_index >= Len(self.data) THEN [ok |-> FALSE, dst |-> dst, k |-> k]
    ELSE WindowItemsNext(self, true_size, corner,
                         Advance(curr, [i \in 1..Len(true_size) |-> true_size[i] - 1], Len(curr)),
                         [dst EXCEPT ![k + 1] = self.data[src_index + 1]], k + 1)

WindowItems(self, true_size, corner, curr, dst, k) ==
    WindowItemsWrite(self, true_size, corner, curr, dst, k,
                     SrcIndex(corner, curr, self.shape, Len(self.shape), 1))

\* the loop 'windows: copy the window at the corner, go to the next corner
RECURSIVE WindowsLoop(_, _, _, _, _)
WindowsLoopNext(self, true_size, adv, r) ==
    IF ~r.ok \/ adv.wrapped THEN r
    ELSE WindowsLoop(self, true_size, adv.v, r.dst, r.k)

WindowsLoop(self, true_size, corner, dst, k) ==
    WindowsLoopNext(self, true_size,
                    Advance(corner, [i \in 1..Len(corner) |-> self.shape[i] - true_size[i]], Len(corner)),
                    WindowItems(self, true_size, corner, [i \in 1..Len(corner) |-> 0], dst, k))

WindowsCopied(new_shape, r) ==
    IF r.ok THEN [res |-> "ok", arr |-> ArrayNew(new_shape, r.dst), k |-> r.k]
    ELSE [res |-> "panic", arr |-> ArrayNew(new_shape, r.dst), k |-> r.k]

\* windows from the size check on: an empty result for a size that is not
\* positive or exceeds its axis; else dst is filled with self.data[0], which
\* is out of bounds for an array without elements, and the windows are copied
WindowsShaped(self, size_spec, new_shape) ==
    IF \E i \in 1..Len(size_spec) : size_spec[i] <= 0 \/ size_spec[i] > self.shape[i]
    THEN [res |-> "ok", arr |-> ArrayNew(new_shape, <<>>), k |-> 0]
    ELSE IF self.data = <<>> THEN [res |-> "panic", arr |-> self, k |-> 0]
    ELSE WindowsCopied(new_shape,
            WindowsLoop(self, size_spec \o Drop(self.shape, Len(size_spec)),
                        [i \in 1..Len(self.shape) |-> 0],
                        Repeat(self.data[1], Product(new_shape)), 0))

\* windows once the sizes are resolved: the shape of the result
WindowsSized(self, size_spec) ==
    WindowsShaped(self, size_spec,
        [i \in 1..Len(size_spec) |-> Max(self.shape[i] + 1 - size_spec[i], 0)]
        \o [i \in 1..Len(size_spec) |-> Max(size_spec[i], 0)]
        \o Drop(self.shape, Len(size_spec)))

\* Array::windows(isize_spec, env)
windows(self, isize_spec) ==
    IF \E i \in 1..Len(isize_spec) : isize_spec[i] = 0
    THEN [res |-> "err", arr |-> self, k |-> 0]
    ELSE IF Len(isize_spec) > Len(self.shape) THEN [res |-> "err", arr |-> self, k |-> 0]
    ELSE WindowsSized(self,
            [i \in 1..Len(isize_spec) |->
                IF isize_spec[i] >= 0 THEN isize_spec[i]
                ELSE self.shape[i] + 1 + isize_spec[i]])

----------------------------------------------------------------------------
(* find and mask: src/src/algorithm/dyadic/mod.rs *)

\* ArrayFlags::BOOLEAN
BOOLEAN_FLAG == 1

\* WILDCARD_CHAR, the character '\u{E000}'
WILDCARD_CHAR == 57344

\* ArrayCmp::array_eq on char elements; the same on u8 elements, none of which
\* is the wildcard
array_eq(a, b) == a = WILDCARD_CHAR \/ b = WILDCARD_CHAR \/ a = b

\* ArrayValue::array_hash on char and u8 elements: what is fed to the hasher
array_hash(a) == a

\* f64 elements: 0 and 1 stand for 0.0 and 1.0, the codes below for -0.0, a
\* NaN and WILDCARD_NAN
NEG_ZERO == 1000
NAN == 1001
WILDCARD_NAN == 1002

\* ArrayCmp for f64: array_cmp(a, b) == Ordering::Equal
f64_array_eq(a, b) ==
    IF a \in {NAN, WILDCARD_NAN} \/ b \in {NAN, WILDCARD_NAN}
    THEN \/ a = WILDCARD_NAN \/ b = WILDCARD_NAN
         \/ (a \in {NAN, WILDCARD_NAN}) = (b \in {NAN, WILDCARD_NAN})
    ELSE (IF a = NEG_ZERO THEN 0 ELSE a) = (IF b = NEG_ZERO THEN 0 ELSE b)

\* ArrayValue for f64: array_hash, the bits fed to the hasher
f64_array_hash(a) ==
    IF a \in {NAN, WILDCARD_NAN} THEN NAN
    ELSE IF a = NEG_ZERO THEN 0
    ELSE a

\* two slices of one length whose elements are pairwise array_eq
SliceEq(x, y) ==
    /\ Len(x) = Len(y)
    /\ \A i \in 1..Len(x) : array_eq(x[i], y[i])

\* ArrayCmpSlice, which lives outside src/, as the key of a hash set or map:
\* a stored key is found for a probe that hashes alike and is equal to it
ArrayCmpSliceMatch(x, y) ==
    /\ [i \in 1..Len(x) |-> array_hash(x[i])] = [i \in 1..Len(y) |-> array_hash(y[i])]
    /\ SliceEq(x, y)

\* Shape::flat_to_dims and Shape::dims_to_flat, which live outside src/: the
\* row-major coordinates of a flat index, and the flat index of coordinates
\* unless one of them is out of bounds
flat_to_dims(shape, i) ==
    [k \in 1..Len(shape) |-> (i \div Product(Drop(shape, k))) % shape[k]]

dims_to_flat(shape, dims) ==
    IF \E k \in 1..Len(shape) : dims[k] >= shape[k] THEN None
    ELSE Some(Sum([k \in 1..Len(shape) |-> dims[k] * Product(Drop(shape, k))]))

\* Array::fill_to_shape, which lives outside src/: leading 1s are added to the
\* shape up to the target's rank, then every cell of the target shape takes
\* the element at the same coordinates, or the fill value where there is none
FillToShape(data, from, shape, fill_value) ==
    IF from = shape THEN [shape |-> shape, data |-> data, meta |-> None]
    ELSE [shape |-> shape,
          data |-> [n \in 1..Product(shape) |->
                      LET i == dims_to_flat(from, flat_to_dims(shape, n - 1))
                      IN IF IsSome(i) THEN data[Unwrap(i) + 1] ELSE fill_value],
          meta |-> None]

fill_to_shape(a, shape, fill_value) ==
    FillToShape(a.data, Repeat(1, Len(shape) - Len(a.shape)) \o a.shape, shape, fill_value)

\* the loop 'items of find: 1 when every item of the window at the corner
\* equals the item of the searched-for array, 0 at the first that differs or
\* when the searched-for array has no such item; not ok for an index outside
\* the searched data
RECURSIVE FindItems(_, _, _, _, _)
\* a find that compares the first item of the window only
FindItemsFirstOnly(searched_for, searched, shape, corner, adv) == [ok |-> TRUE, same |-> 1]

FindItemsNext(searched_for, searched, shape, corner, adv) ==
    IF adv.wrapped THEN [ok |-> TRUE, same |-> 1]
    ELSE FindItems(searched_for, searched, shape, corner, adv.v)

FindItemsSame(searched_for, searched, shape, corner, curr, searched_index, search_for_index) ==
    IF search_for_index >= Len(searched_for.data) THEN [ok |-> TRUE, same |-> 0]
    ELSE IF searched_index >= Len(searched.data) THEN [ok |-> FALSE, same |-> 0]
    ELSE IF ~array_eq(searched.data[searched_index + 1], searched_for.data[search_for_index + 1])
    THEN [ok |-> TRUE, same |-> 0]
    ELSE FindItemsNext(searched_for, searched, shape, corner,
                       Advance(curr, [i \in 1..Len(curr) |-> shape[i] - 1], Len(curr)))

FindItems(searched_for, searched, shape, corner, curr) ==
    FindItemsSame(searched_for, searched, shape, corner, curr,
                  SrcIndex(corner, curr, searched.shape, Len(curr), 1),
                  SrcIndex([i \in 1..Len(curr) |-> 0], curr, shape, Len(curr), 1))

\* the loop 'windows of find: data_slice[k] for the corners in row-major
\* order; not ok when k is outside the pre-padded output
RECURSIVE FindLoop(_, _, _, _, _, _)
FindLoopNext(searched_for, searched, shape, size, adv, data) ==
    IF adv.wrapped THEN [ok |-> TRUE, data |-> data]
    ELSE FindLoop(searched_for, searched, shape, size, adv.v, data)

FindLoopWrite(searched_for, searched, shape, size, corner, data, r) ==
    IF ~r.ok \/ Len(data) >= size THEN [ok |-> FALSE, data |-> data]
    ELSE FindLoopNext(searched_for, searched, shape, size,
                      Advance(corner, [i \in 1..Len(corner) |-> searched.shape[i] - shape[i]], Len(corner)),
                      Append(data, r.same))

FindLoop(searched_for, searched, shape, size, corner, data) ==
    FindLoopWrite(searched_for, searched, shape, size, corner, data,
                  FindItems(searched_for, searched, shape, corner, [i \in 1..Len(corner) |-> 0]))

\* a find that leaves its output in the pre-padded shape
FindUnpadded(searched, temp_output_shape, r) ==
    [res |-> IF r.ok THEN "ok" ELSE "panic",
     arr |-> [shape |-> temp_output_shape, data |-> r.data,
              meta |-> Some([DEFAULT_META EXCEPT !.flags = BOOLEAN_FLAG])]]

\* the end of find: the output padded with 0 to the searched shape and flagged
FindPadded(searched, temp_output_shape, r) ==
    IF ~r.ok THEN [res |-> "panic", arr |-> searched]
    ELSE [res |-> "ok",
          arr |-> [FillToShape(r.data, temp_output_shape, searched.shape, 0)
                     EXCEPT !.meta = Some([DEFAULT_META EXCEPT !.flags = BOOLEAN_FLAG])]]

\* find from the padded shape of the searched-for array on; s + 1 - f is an
\* unsigned subtraction
FindIn(searched_for, searched, shape) ==
    IF Len(shape) > Len(searched.shape) THEN [res |-> "panic", arr |-> searched]
    ELSE IF \E i \in 1..Len(shape) : shape[i] > searched.shape[i] + 1
    THEN [res |-> "panic", arr |-> searched]
    ELSE IF \A i \in 1..Len(shape) : searched.shape[i] > 0
    THEN FindPadded(searched, [i \in 1..Len(shape) |-> searched.shape[i] + 1 - shape[i]],
                    FindLoop(searched_for, searched, shape,
                             Product([i \in 1..Len(shape) |-> searched.shape[i] + 1 - shape[i]]),
                             [i \in 1..Len(shape) |-> 0], <<>>))
    ELSE FindPadded(searched, [i \in 1..Len(shape) |-> searched.shape[i] + 1 - shape[i]],
                    [ok |-> TRUE,
                     data |-> Repeat(0, Product([i \in 1..Len(shape) |-> searched.shape[i] + 1 - shape[i]]))])

\* zip of the two shapes reversed: some dimension of a exceeds b's
AnyDimGreater(a, b) ==
    \E i \in 1..Min(Len(a), Len(b)) : a[Len(a) + 1 - i] > b[Len(b) + 1 - i]

\* Array::find(searched, env) with env.scalar_fill() = fill
find(searched_for, searched, fill) ==
    IF rank(searched_for) > rank(searched) \/ AnyDimGreater(searched_for.shape, searched.shape)
    THEN IF IsSome(fill)
         THEN IF searched.shape = <<>> THEN [res |-> "panic", arr |-> searched]
              ELSE FindIn(searched_for,
                          fill_to_shape(searched,
                                        [searched.shape EXCEPT ![1] = row_count(searched_for)],
                                        Unwrap(fill)),
                          Repeat(1, rank(searched) - rank(searched_for)) \o searched_for.shape)
         ELSE [res |-> "ok",
               arr |-> [shape |-> searched.shape,
                        data |-> Repeat(0, element_count(searched)),
                        meta |-> Some([DEFAULT_META EXCEPT !.flags = BOOLEAN_FLAG])]]
    ELSE FindIn(searched_for, searched,
                Repeat(1, rank(searched) - rank(searched_for)) \o searched_for.shape)

\* the cells the needle covers from the corner curr: curr + offset for every
\* needle element j
MaskCell(needle_shape, haystack, curr, j) ==
    dims_to_flat(haystack.shape,
                 [k \in 1..Len(curr) |-> curr[k] + flat_to_dims(needle_shape, j)[k]])

\* a mask whose matches may overlap earlier ones
MaskMatchesOverlapping(needle, needle_shape, haystack, result, curr) ==
    \A j \in 0..(element_count(needle) - 1) :
        /\ IsSome(MaskCell(needle_shape, haystack, curr, j))
        /\ array_eq(needle.data[j + 1], haystack.data[Unwrap(MaskCell(needle_shape, haystack, curr, j)) + 1])

\* the needle matches at curr: every cell exists, is not labelled yet and
\* holds the needle's element
MaskMatches(needle, needle_shape, haystack, result, curr) ==
    \A j \in 0..(element_count(needle) - 1) :
        /\ IsSome(MaskCell(needle_shape, haystack, curr, j))
        /\ ~(result[Unwrap(MaskCell(needle_shape, haystack, curr, j)) + 1] > 0)
        /\ array_eq(needle.data[j + 1], haystack.data[Unwrap(MaskCell(needle_shape, haystack, curr, j)) + 1])

\* the loop over the haystack's flat indices i, match_num counting the matches
RECURSIVE MaskLoop(_, _, _, _, _, _)
MaskLoop(needle, needle_shape, haystack, result, i, match_num) ==
    IF i >= Len(result) THEN result
    ELSE IF MaskMatches(needle, needle_shape, haystack, result, flat_to_dims(haystack.shape, i))
    THEN MaskLoop(needle, needle_shape, haystack,
                  [k \in 1..Len(result) |->
                     IF \E j \in 0..(element_count(needle) - 1) :
                           MaskCell(needle_shape, haystack, flat_to_dims(haystack.shape, i), j) = Some(k - 1)
                     THEN match_num + 1 ELSE result[k]],
                  i + 1, match_num + 1)
    ELSE MaskLoop(needle, needle_shape, haystack, result, i + 1, match_num)

\* Array::mask(haystack, env)
mask(needle, haystack) ==
    IF rank(needle) > rank(haystack) THEN [res |-> "err", arr |-> haystack]
    ELSE IF AnyDimGreater(needle.shape, haystack.shape)
    THEN [res |-> "ok", arr |-> ArrayNew(haystack.shape, Repeat(0, element_count(haystack)))]
    ELSE [res |-> "ok",
          arr |-> ArrayNew(haystack.shape,
                           MaskLoop(needle,
                                    Repeat(1, rank(haystack) - rank(needle)) \o needle.shape,
                                    haystack, Repeat(0, element_count(haystack)), 0, 0))]

----------------------------------------------------------------------------
(* member, index_of and coordinate: src/src/algorithm/dyadic/mod.rs *)

\* Array::row_slices
row_slices(a) == [r \in 1..row_count(a) |-> row_slice(a, r - 1)]

\* Array::rows
rows(a) == [r \in 1..row_count(a) |-> RowArray(a, r - 1)]

\* haystack.shape.ends_with(&needle.shape)
ends_with(shape, suffix) ==
    /\ Len(suffix) <= Len(shape)
    /\ Drop(shape, Len(shape) - Len(suffix)) = suffix

\* a lookup that takes the last of several equal rows
LastIndex(slices, elem) ==
    IF \E i \in 1..Len(slices) : ArrayCmpSliceMatch(slices[i], elem)
    THEN (CHOOSE i \in 1..Len(slices) :
             /\ ArrayCmpSliceMatch(slices[i], elem)
             /\ \A j \in (i + 1)..Len(slices) : ~ArrayCmpSliceMatch(slices[j], elem)) - 1
    ELSE Len(slices)

\* a lookup that answers 0 for a row that is not there
FirstIndexOrZero(slices, elem) ==
    IF \E i \in 1..Len(slices) : ArrayCmpSliceMatch(slices[i], elem)
    THEN (CHOOSE i \in 1..Len(slices) :
             /\ ArrayCmpSliceMatch(slices[i], elem)
             /\ \A j \in 1..(i - 1) : ~ArrayCmpSliceMatch(slices[j], elem)) - 1
    ELSE 0

\* members.entry(row).or_insert(i) and members.get(elem): the index stored
\* for the first key the probe elem finds, or the number of rows
FirstIndex(slices, elem) ==
    IF \E i \in 1..Len(slices) : ArrayCmpSliceMatch(slices[i], elem)
    THEN (CHOOSE i \in 1..Len(slices) :
             /\ ArrayCmpSliceMatch(slices[i], elem)
             /\ \A j \in 1..(i - 1) : ~ArrayCmpSliceMatch(slices[j], elem)) - 1
    ELSE Len(slices)

\* position(|r| r.len() == elem.len() && all array_eq).unwrap_or(row_count)
Position(slices, elem) ==
    IF \E i \in 1..Len(slices) : SliceEq(slices[i], elem)
    THEN (CHOOSE i \in 1..Len(slices) :
             SliceEq(slices[i], elem) /\ \A j \in 1..(i - 1) : ~SliceEq(slices[j], elem)) - 1
    ELSE Len(slices)

\* one lookup per row of the needle in the rows of the haystack
IndexOfRows(needle, haystack) ==
    [r \in 1..row_count(needle) |-> FirstIndex(row_slices(haystack), row_slice(needle, r - 1))]

\* Array::member(of, env)
RECURSIVE member(_, _)
member(elems, of) ==
    IF rank(elems) = rank(of)
    THEN [res |-> "ok",
          arr |-> [shape |-> Take(elems.shape, 1),
                   data |-> [r \in 1..row_count(elems) |->
                               IF \E i \in 1..row_count(of) :
                                     ArrayCmpSliceMatch(row_slice(of, i - 1), row_slice(elems, r - 1))
                               THEN 1 ELSE 0],
                   meta |-> Some([DEFAULT_META EXCEPT !.flags = BOOLEAN_FLAG])]]
    ELSE IF rank(elems) > rank(of)
    THEN [res |-> "ok",
          arr |-> [FromRowArrays([r \in 1..row_count(elems) |-> member(rows(elems)[r], of).arr])
                     EXCEPT !.meta = Some([DEFAULT_META EXCEPT !.flags = BOOLEAN_FLAG])]]
    ELSE IF ~ends_with(of.shape, elems.shape) THEN [res |-> "err", arr |-> of]
    ELSE IF rank(of) - rank(elems) = 1
    THEN [res |-> "ok",
          arr |-> [shape |-> <<>>,
                   data |-> <<IF \E i \in 1..row_count(of) :
                                    /\ rows(of)[i].shape = elems.shape
                                    /\ SliceEq(elems.data, rows(of)[i].data)
                              THEN 1 ELSE 0>>,
                   meta |-> Some([DEFAULT_META EXCEPT !.flags = 3])]]
    ELSE [res |-> "ok",
          arr |-> [FromRowArrays([r \in 1..row_count(of) |-> member(elems, rows(of)[r]).arr])
                     EXCEPT !.meta = Some([DEFAULT_META EXCEPT !.flags = BOOLEAN_FLAG])]]

\* Array::index_of(haystack, env)
RECURSIVE index_of(_, _)
index_of(needle, haystack) ==
    IF rank(needle) = rank(haystack)
    THEN [res |-> "ok",
          arr |-> ArrayNew(Take(needle.shape, 1), IndexOfRows(needle, haystack))]
    ELSE IF rank(needle) > rank(haystack)
    THEN [res |-> "ok",
          arr |-> FromRowArrays([r \in 1..row_count(needle) |->
                                    index_of(rows(needle)[r], haystack).arr])]
    ELSE IF ~ends_with(haystack.shape, needle.shape) THEN [res |-> "err", arr |-> haystack]
    ELSE IF rank(haystack) - rank(needle) = 1
    THEN [res |-> "ok",
          arr |-> ArrayNew(<<>>, <<Position(row_slices(haystack), needle.data)>>)]
    ELSE [res |-> "ok",
          arr |-> FromRowArrays([r \in 1..row_count(haystack) |->
                                    index_of(needle, rows(haystack)[r]).arr])]

\* the branch of coordinate for a haystack deeper than the needle, from
\* haystack_item_len on: todo!() for items without elements
CoordinateIn(needle, haystack, haystack_item_len, outer_hay_shape) ==
    IF haystack_item_len = 0 THEN [res |-> "panic", arr |-> haystack]
    ELSE LET raw_index == Position(Chunks(haystack.data, haystack_item_len), needle.data)
             index == IF raw_index < NumChunks(haystack.data, haystack_item_len)
                      THEN flat_to_dims(outer_hay_shape, raw_index)
                      ELSE outer_hay_shape
         IN [res |-> "ok",
             arr |-> IF Len(index) = 1 THEN ArrayNew(<<>>, index)
                     ELSE ArrayNew(<<Len(index)>>, index)]

\* Array::coordinate(haystack, env)
RECURSIVE coordinate(_, _)
coordinate(needle, haystack) ==
    IF rank(needle) = rank(haystack)
    THEN [res |-> "ok",
          arr |-> ArrayNew(Take(needle.shape, 1) \o <<1>>, IndexOfRows(needle, haystack))]
    ELSE IF rank(needle) > rank(haystack)
    THEN [res |-> "ok",
          arr |-> FromRowArrays([r \in 1..row_count(needle) |->
                                    coordinate(rows(needle)[r], haystack).arr])]
    ELSE IF ~ends_with(haystack.shape, needle.shape) THEN [res |-> "err", arr |-> haystack]
    ELSE CoordinateIn(needle, haystack,
                      Product(Drop(haystack.shape, rank(haystack) - rank(needle))),
                      Take(haystack.shape, rank(haystack) - rank(needle)))

----------------------------------------------------------------------------
(* progressive_index_of: src/src/algorithm/dyadic/mod.rs *)

\* elem == of on two rows: Array::eq compares the shapes and the data
RowEq(x, y) == x.shape = y.shape /\ SliceEq(x.data, y.data)

\* what a row feeds to the hasher: its shape and the array_hash of its elements
RowHash(x) == <<x.shape, [i \in 1..Len(x.data) |-> array_hash(x.data[i])]>>

\* find(|(i, of)| elem == of && used.insert((hash, i))): the first row equal
\* to elem whose (hash, index) pair is not in used, or the number of rows
ProgressiveFind(elem, in_rows, used) ==
    LET free == {i \in 1..Len(in_rows) :
                    RowEq(elem, in_rows[i]) /\ <<RowHash(elem), i - 1>> \notin used}
    IN IF free = {} THEN Len(in_rows)
       ELSE (CHOOSE i \in free : \A j \in free : i <= j) - 1

\* the loop over the rows of searched_for, used growing by the pairs inserted
RECURSIVE ProgressiveRows(_, _, _, _, _)
ProgressiveRowsPush(for_rows, in_rows, r, used, result_data, i) ==
    ProgressiveRows(for_rows, in_rows, r + 1,
                    IF i < Len(in_rows) THEN used \cup {<<RowHash(for_rows[r]), i>>} ELSE used,
                    Append(result_data, i))

ProgressiveRows(for_rows, in_rows, r, used, result_data) ==
    IF r > Len(for_rows) THEN result_data
    ELSE ProgressiveRowsPush(for_rows, in_rows, r, used, result_data,
                             ProgressiveFind(for_rows[r], in_rows, used))

\* Array::progressive_index_of(searched_in, env)
RECURSIVE progressive_index_of(_, _)
progressive_index_of(searched_for, searched_in) ==
    IF rank(searched_for) = rank(searched_in)
    THEN [res |-> "ok",
          arr |-> ArrayNew(IF rank(searched_for) = 1 THEN <<Len(searched_for.data)>>
                           ELSE Take(searched_for.shape, 1),
                           IF rank(searched_for) = 1
                           THEN ProgressiveRows([i \in 1..Len(searched_for.data) |->
                                                    [shape |-> <<>>, data |-> <<searched_for.data[i]>>]],
                                                [i \in 1..Len(searched_in.data) |->
                                                    [shape |-> <<>>, data |-> <<searched_in.data[i]>>]],
                                                1, {}, <<>>)
                           ELSE ProgressiveRows(rows(searched_for), rows(searched_in), 1, {}, <<>>))]
    ELSE IF rank(searched_for) > rank(searched_in)
    THEN [res |-> "ok",
          arr |-> FromRowArrays([r \in 1..row_count(searched_for) |->
                                    progressive_index_of(rows(searched_for)[r], searched_in).arr])]
    ELSE IF rank(searched_in) - rank(searched_for) = 1
    THEN IF rank(searched_for) = 0
         THEN IF searched_for.data = <<>> THEN [res |-> "panic", arr |-> searched_in]
              ELSE [res |-> "ok",
                    arr |-> ArrayNew(<<>>, <<Position([i \in 1..Len(searched_in.data) |->
                                                          <<searched_in.data[i]>>],
                                                       <<searched_for.data[1]>>)>>)]
         ELSE [res |-> "ok",
               arr |-> ArrayNew(<<>>,
                                <<IF \E i \in 1..row_count(searched_in) :
                                        RowEq(rows(searched_in)[i], searched_for)
                                  THEN (CHOOSE i \in 1..row_count(searched_in) :
                                           /\ RowEq(rows(searched_in)[i], searched_for)
                                           /\ \A j \in 1..(i - 1) :
                                                 ~RowEq(rows(searched_in)[j], searched_for)) - 1
                                  ELSE row_count(searched_in)>>)]
    ELSE [res |-> "ok",
          arr |-> FromRowArrays([r \in 1..row_count(searched_in) |->
                                    progressive_index_of(searched_for, rows(searched_in)[r]).arr])]

----------------------------------------------------------------------------
(* Inputs *)

Shapes == {s \in SeqsUpTo(0..MaxDim, MaxRank) : Product(s) <= MaxElems}

InputMetas(s) ==
    {None,
     Some([label |-> Some("lbl"), flags |-> 0,
           map_keys |-> Some(Iota(IF s = <<>> THEN 1 ELSE s[1]))])}

\* arrays as Array::new and the map constructors leave them
InputArrays ==
    UNION {{[shape |-> s, data |-> Iota(Product(s)), meta |-> m] : m \in InputMetas(s)} : s \in Shapes}

Offsets == (-MaxOff)..MaxOff

\* rotation indices: Array<isize> of rank 0, 1 or 2 with at most two offsets
ByShapes == {s \in SeqsUpTo(0..2, 2) : Product(s) <= 2}
ByArrays ==
    UNION {{[shape |-> s, data |-> d, meta |-> None] : d \in [1..Product(s) -> Offsets]} : s \in ByShapes}

FillVal == 0
Fills == {None, Some(FillVal)}

Negate(by) == [by EXCEPT !.data = [i \in 1..Len(by.data) |-> -by.data[i]]]

----------------------------------------------------------------------------
(* Specification of rotate *)

InitArray ==
    /\ arr \in InputArrays
    /\ pre = arr
    /\ orig = arr
    /\ args = [none |-> TRUE]
    /\ op = "new"
    /\ res = "ok"
    /\ calls = <<>>
    /\ operand = None
    /\ debug = FALSE

DoRotate(name, by, depth, by_depth, fill) ==
    LET r == rotate_depth(arr, by, depth, by_depth, fill)
    IN /\ arr' = r.arr
       /\ res' = r.res
       /\ calls' = r.calls
       /\ pre' = arr
       /\ orig' = pre
       /\ args' = [by |-> by, depth |-> depth, by_depth |-> by_depth, fill |-> fill]
       /\ op' = name
       /\ operand' = by
       /\ UNCHANGED debug

\* Array::rotate_depth on a freshly built array
Rotate ==
    /\ op = "new"
    /\ \E by \in ByArrays, depth \in 0..1, by_depth \in 0..1, fill \in Fills :
          DoRotate("rotate", by, depth, by_depth, fill)

\* a second rotate_depth, by the negated index of the first, in the same context
RotateBack ==
    /\ op = "rotate"
    /\ res = "ok"
    /\ DoRotate("rotate_back", Negate(args.by), args.depth, args.by_depth, args.fill)

NextRotate == Rotate \/ RotateBack

SpecRotate == InitArray /\ [][NextRotate]_vars

----------------------------------------------------------------------------
(* Row-major index arithmetic used to state the properties *)

\* the 0-based multi-index of the 0-based flat index j in an array of shape sh
Unflatten(sh, j) == [a \in 1..Len(sh) |-> (j \div Product(Drop(sh, a))) % sh[a]]
\* the 0-based flat index of a multi-index
FlatIndex(sh, idx) == Sum([a \in 1..Len(sh) |-> idx[a] * Product(Drop(sh, a))])
InBounds(sh, idx) == \A a \in 1..Len(sh) : idx[a] >= 0 /\ idx[a] < sh[a]
\* the offset a rotation index gives axis a (0 beyond its length)
AxisOffset(by, a) == IF a <= Len(by.data) THEN by.data[a] ELSE 0
\* the elements of row i (1-based) of an array
RowElems(a, i) == {a.data[j] : j \in ((i - 1) * row_len(a) + 1)..(i * row_len(a))}

PlainRotate == args.depth = 0 /\ args.by_depth = 0

----------------------------------------------------------------------------
(* Properties of rotate *)

\* C2: with no fill value, rotate(k) followed by rotate(-k) gives back the
\* shape and the element sequence of the array it started from
C2_RotateRoundTrip ==
    (op = "rotate_back" /\ res = "ok" /\ PlainRotate /\ args.fill = None)
        => (arr.shape = orig.shape /\ arr.data = orig.data)

C2_Witness ==
    /\ op = "rotate_back" /\ res = "ok" /\ PlainRotate /\ args.fill = None
    /\ Len(args.by.data) = 2 /\ args.by.data[1] # 0 /\ args.by.data[2] # 0
    /\ rank(orig) = 2 /\ pre.data # orig.data

\* C25: with no fill value, rotate by offsets k (no more of them than the
\* array has axes) leaves the shape unchanged and places at every multi-index
\* i the original element at ((i_0 + k_0) mod d_0, (i_1 + k_1) mod d_1, ...),
\* the offset being 0 on the axes beyond the length of k; the result is a
\* permutation of the original elements
C25_RotateIsCyclic ==
    (op = "rotate" /\ res = "ok" /\ PlainRotate /\ args.fill = None
        /\ Len(args.by.shape) <= 1 /\ Len(args.by.data) <= rank(pre))
        => /\ arr.shape = pre.shape
           /\ Len(arr.data) = Len(pre.data)
           /\ \A j \in 0..(Len(arr.data) - 1) :
                 arr.data[j + 1] =
                    pre.data[FlatIndex(pre.shape,
                                 [a \in 1..Len(pre.shape) |->
                                     (Unflatten(pre.shape, j)[a] + AxisOffset(args.by, a))
                                        % pre.shape[a]]) + 1]
           /\ \A x \in {pre.data[j] : j \in 1..Len(pre.data)} :
                 Cardinality({j \in 1..Len(arr.data) : arr.data[j] = x})
                    = Cardinality({j \in 1..Len(pre.data) : pre.data[j] = x})

C25_Witness ==
    /\ op = "rotate" /\ res = "ok" /\ PlainRotate /\ args.fill = None
    /\ pre.shape = <<3, 2>> /\ args.by.data = <<-2, 2>> /\ args.by.shape = <<2>>
    /\ pre.data = <<1, 2, 3, 4, 5, 6>>
    /\ arr.data = <<3, 4, 5, 6, 1, 2>>

\* C3: with a scalar fill f, rotate by k is a shift with fill: the element at
\* multi-index i is the original element at i + k when i + k is inside the
\* shape on every axis, and f otherwise
C3_FillShift ==
    (op = "rotate" /\ res = "ok" /\ PlainRotate /\ IsSome(args.fill))
        => /\ arr.shape = pre.shape
           /\ Len(arr.data) = Len(pre.data)
           /\ \A j \in 0..(Len(arr.data) - 1) :
                 LET i == Unflatten(pre.shape, j)
                     src == [a \in 1..Len(pre.shape) |-> i[a] + AxisOffset(args.by, a)]
                 IN arr.data[j + 1] =
                        IF InBounds(pre.shape, src)
                        THEN pre.data[FlatIndex(pre.shape, src) + 1]
                        ELSE Unwrap(args.fill)

C3_Witness ==
    /\ op = "rotate" /\ res = "ok" /\ PlainRotate /\ IsSome(args.fill)
    /\ pre.shape = <<3, 2>> /\ args.by.data = <<-1, 1>>
    /\ arr.data = <<FillVal, FillVal, 2, FillVal, 4, FillVal>>

\* C4 as claimed: after rotate at depth 0 of an array that carries map-keys
\* the keys are still present and rotated by the leading-axis offset, whatever
\* the depth of the rotation index
KeysFollowRows ==
    /\ IsSome(map_keys(arr))
    /\ Unwrap(map_keys(arr)) = MapKeysRotate(Unwrap(map_keys(pre)), AxisOffset(args.by, 1))
    /\ arr.shape = pre.shape
    /\ \A i \in 1..row_count(arr) :
          LET from == Unwrap(map_keys(arr))[i]
          IN IF IsSome(args.fill)
             THEN RowElems(arr, i) \subseteq (RowElems(pre, from) \cup {FillVal})
             ELSE RowElems(arr, i) = RowElems(pre, from)

TargetRowShape == Drop(pre.shape, Min(args.depth, rank(pre)))
IndexRowShape == Drop(args.by.shape, Min(args.by_depth, rank(args.by)))
BadIndex == Len(IndexRowShape) > 1 \/ Product(IndexRowShape) > Len(TargetRowShape)

----------------------------------------------------------------------------
(* Specification of depth_slices *)

Depths == 0..2
Operands == {a \in InputArrays : a.meta = None}

\* Array::depth_slices with a closure that records its arguments and returns Ok
DepthSlices ==
    /\ op = "new"
    /\ \E b \in Operands, a_depth \in Depths, b_depth \in Depths :
          LET p == DepthPrepare(arr, b, a_depth, b_depth)
          IN /\ arr' = p.a
             /\ operand' = p.b
             /\ res' = p.status
             /\ calls' = IF p.status = "ok" THEN DepthRows(p) ELSE <<>>
             /\ pre' = arr
             /\ orig' = pre
             /\ args' = [b |-> b, a_depth |-> a_depth, b_depth |-> b_depth]
             /\ op' = "depth_slices"
             /\ UNCHANGED debug

NextDepth == DepthSlices

SpecDepth == InitArray /\ [][NextDepth]_vars

\* the depths depth_slices starts from
ADepth == Min(args.a_depth, rank(pre))
BDepth == Min(args.b_depth, rank(args.b))
CommonDepth == Min(ADepth, BDepth)
ARowLen == Product(Drop(pre.shape, ADepth))
BRowLen == Product(Drop(args.b.shape, BDepth))
\* the 0-based row, at depth `common`, that holds depth-row k (0-based) of an
\* operand whose depth prefix is `prefix`
CommonRow(prefix, common, k) ==
    FlatIndex(Take(prefix, common), Take(Unflatten(prefix, k), common))

DepthsDiffer ==
    /\ op = "depth_slices" /\ res = "ok"
    /\ PrefixesAgree(pre.shape, ADepth, args.b.shape, BDepth)
    /\ ADepth # BDepth
    /\ ARowLen > 0 /\ BRowLen > 0

\* C6: when the prefixes agree on the common depth and the depths differ, the
\* operands end up with the same depth prefix, the closure runs once for every
\* depth-row of the deeper operand, and each of those rows is paired with the
\* row of the shallower operand at the same common-prefix index
C6_BroadcastPairsRows ==
    DepthsDiffer =>
        LET depth == Max(ADepth, BDepth)
            a_deeper == ADepth > BDepth
            prefix == IF a_deeper THEN Take(pre.shape, ADepth) ELSE Take(args.b.shape, BDepth)
        IN /\ Take(arr.shape, depth) = Take(operand.shape, depth)
           /\ Len(calls) = Product(prefix)
           /\ \A k \in 1..Len(calls) :
                 LET c == CommonRow(prefix, CommonDepth, k - 1) + 1
                 IN IF a_deeper
                    THEN /\ calls[k].a = Chunk(pre.data, ARowLen, k)
                         /\ calls[k].b = Chunk(args.b.data, BRowLen, c)
                    ELSE /\ calls[k].a = Chunk(pre.data, ARowLen, c)
                         /\ calls[k].b = Chunk(args.b.data, BRowLen, k)

----------------------------------------------------------------------------
(* Specification of reshape *)

MaxTargetDim == 2   \* largest magnitude of a reshape target dimension

DimSpecs == {Ok(n) : n \in (-MaxTargetDim)..MaxTargetDim} \cup {Err(FALSE), Err(TRUE)}
\* reshape targets of rank 0 to 3
Targets == SeqsUpTo(DimSpecs, 3)

DoReshape(name, dims, fill, first) ==
    LET r == reshape(arr, dims, fill, debug)
    IN /\ arr' = r.arr
       /\ res' = r.res
       /\ operand' = r.axes
       /\ calls' = <<>>
       /\ pre' = arr
       /\ orig' = pre
       /\ args' = [dims |-> dims, fill |-> fill, first |-> first]
       /\ op' = name
       /\ UNCHANGED debug

\* Array::reshape on a freshly built array
Reshape ==
    /\ op = "new"
    /\ \E dims \in Targets, fill \in Fills : DoReshape("reshape", dims, fill, <<>>)

\* a second reshape, to the shape the array had at first, in the same context
ReshapeBack ==
    /\ op = "reshape"
    /\ res = "ok"
    /\ DoReshape("reshape_back", [i \in 1..Len(pre.shape) |-> Ok(pre.shape[i])], args.fill, args.dims)

\* Array::reshape_scalar on a freshly built array
ReshapeScalar ==
    /\ op = "new"
    /\ \E count \in DimSpecs :
          /\ arr' = reshape_scalar(arr, count)
          /\ res' = "ok"
          /\ operand' = None
          /\ calls' = <<>>
          /\ pre' = arr
          /\ orig' = pre
          /\ args' = [count |-> count]
          /\ op' = "reshape_scalar"
          /\ UNCHANGED debug

NextReshape == Reshape \/ ReshapeBack \/ ReshapeScalar

SpecReshape == InitArray /\ [][NextReshape]_vars

----------------------------------------------------------------------------
(* Properties of reshape *)

InfIndex == CHOOSE i \in 1..Len(args.dims) : ~args.dims[i].ok

\* P: the product of the magnitudes of the entries that are not inferred
OtherMagnitudes ==
    Product([i \in 1..Len(args.dims) |->
                IF args.dims[i].ok THEN Abs(args.dims[i].v) ELSE 1])

IsCeilOf(q, total, p) == q * p >= total /\ (q - 1) * p < total
IsFloorOf(q, total, p) == q * p <= total /\ (q + 1) * p > total

\* C7: with exactly one inferred entry the magnitude of the inferred dimension
\* is total / P rounded up under a fill and down without one, wherever the
\* inferred entry stands and whatever the signs of the others; a target with
\* more than one inferred entry is an error.
C7_InferredDimension ==
    op = "reshape" =>
       /\ InfCount(args.dims) > 1 => res = "err" /\ ~operand.ok
       /\ (InfCount(args.dims) = 1 /\ OtherMagnitudes # 0) =>
             /\ operand.ok
             /\ LET q == Abs(operand.axes[InfIndex])
                    total == Product(pre.shape)
                IN IF IsSome(args.fill) THEN IsCeilOf(q, total, OtherMagnitudes)
                   ELSE IsFloorOf(q, total, OtherMagnitudes)

NoReversedAxis == \A i \in 1..Len(operand.axes) : operand.axes[i] >= 0

\* C8: for a resolved shape of n elements and data d of m elements, axis
\* reversal aside: n <= m keeps the first n elements; n > m under a fill keeps d
\* and appends n - m fill values; n > m without a fill and m > 0 gives
\* d[i mod m] at every i < n; n > m without a fill and m = 0 is an error.
C8_ReshapeData ==
    (op = "reshape" /\ operand.ok /\ NoReversedAxis) =>
       LET n == Product(operand.axes)
           d == pre.data
           m == Len(d)
       IN /\ n <= m => res = "ok" /\ arr.data = Take(d, n)
          /\ (n > m /\ IsSome(args.fill)) =>
                /\ res = "ok"
                /\ Len(arr.data) = n
                /\ \A i \in 1..n : arr.data[i] = IF i <= m THEN d[i] ELSE Unwrap(args.fill)
          /\ (n > m /\ args.fill = None /\ m > 0) =>
                /\ res = "ok"
                /\ Len(arr.data) = n
                /\ \A i \in 0..(n - 1) : arr.data[i + 1] = d[(i % m) + 1]
          /\ (n > m /\ args.fill = None /\ m = 0) => res = "err"

\* three elements tiled over a 2 by 2 target: one whole copy and one element more
C8_Witness ==
    /\ op = "reshape"
    /\ res = "ok"
    /\ pre.data = <<1, 2, 3>>
    /\ args.dims = <<Ok(2), Ok(2)>>
    /\ args.fill = None
    /\ arr.data = <<1, 2, 3, 1>>

LiteralTarget(dims) == \A i \in 1..Len(dims) : dims[i].ok /\ dims[i].v >= 0

\* C9: a reshape to a literal non-negative shape with the element count of the
\* array succeeds, leaves the flat data as it was and sets the shape to the
\* target; reshaping back to the original shape restores shape and data.
C9_SameCountKeepsData ==
    /\ (op = "reshape" /\ LiteralTarget(args.dims)
          /\ Product(DimValues(args.dims)) = Len(pre.data)) =>
             /\ res = "ok"
             /\ arr.data = pre.data
             /\ arr.shape = DimValues(args.dims)
    /\ (op = "reshape_back" /\ LiteralTarget(args.first)
          /\ Product(DimValues(args.first)) = Len(orig.data)) =>
             /\ res = "ok"
             /\ arr.shape = orig.shape
             /\ arr.data = orig.data

C9_Witness ==
    /\ op = "reshape_back"
    /\ res = "ok"
    /\ orig.shape = <<2, 2>>
    /\ args.first = <<Ok(2), Ok(1), Ok(2)>>
    /\ pre.shape = <<2, 1, 2>>
    /\ arr.shape = <<2, 2>>
    /\ arr.data = <<1, 2, 3, 4>>

----------------------------------------------------------------------------
(* Specification of rerank and keep *)

MaxCount == 2   \* largest keep count

Ranks == (-(MaxRank + 1))..(MaxRank + 1)
Counts == SeqsUpTo(0..MaxCount, MaxDim)
\* no fill, a scalar fill (-1: not a natural number), a list fill, an empty
\* fill, a fill of rank 2
KeepFills ==
    {None} \cup {Some(ArrayNew(<<>>, <<c>>)) : c \in (-1)..MaxCount}
           \cup {Some(ArrayNew(<<2>>, <<c, d>>)) : c, d \in 0..1}
           \cup {Some(ArrayNew(<<0>>, <<>>))}
           \cup {Some(ArrayNew(<<1, 2>>, <<c, 1 - c>>)) : c \in 0..1}

Finish(name, r, a) ==
    /\ arr' = r.arr
    /\ res' = r.res
    /\ operand' = None
    /\ calls' = <<>>
    /\ pre' = arr
    /\ orig' = pre
    /\ args' = a
    /\ op' = name
    /\ UNCHANGED debug

\* Value::rerank on a freshly built array
Rerank ==
    /\ op = "new"
    /\ \E irank \in Ranks : Finish("rerank", rerank(arr, irank), [irank |-> irank])

\* Value::keep with a scalar count
ScalarKeep ==
    /\ op = "new"
    /\ \E count \in 0..MaxCount :
          Finish("scalar_keep", [res |-> "ok", arr |-> scalar_keep(arr, count)],
                 [count |-> count])

\* Value::keep with a list of counts
ListKeep ==
    /\ op = "new"
    /\ \E counts \in Counts, fill \in KeepFills :
          Finish("list_keep", list_keep(arr, counts, fill),
                 [counts |-> counts, fill |-> fill])

\* Value::undo_keep of the array a keep returned, with the same counts and
\* with the array that was kept as the array to put the rows back into
UndoKeep ==
    /\ op = "list_keep"
    /\ res = "ok"
    /\ Finish("undo_keep", undo_keep(arr, args.counts, pre), args)

NextKeep == Rerank \/ ScalarKeep \/ ListKeep \/ UndoKeep

SpecKeep == InitArray /\ [][NextKeep]_vars

\* the operation named reversed the leading axis
LeadingReversed ==
    \/ op = "reshape" /\ operand.ok /\ operand.axes # <<>> /\ operand.axes[1] < 0
    \/ op = "reshape_scalar" /\ (IF args.count.ok THEN args.count.v < 0 ELSE args.count.rev)

\* C10: after reshape, reshape_scalar, rerank, scalar_keep or list_keep has
\* changed the number of rows or reversed the leading axis, the array carries
\* no map-keys.
C10_StaleKeysDropped ==
    (/\ op \in {"reshape", "reshape_scalar", "rerank", "scalar_keep", "list_keep"}
     /\ res = "ok"
     /\ (row_count(arr) # row_count(pre) \/ LeadingReversed))
       => map_keys(arr) = None

----------------------------------------------------------------------------
(* Specification of the constructors: src/src/array.rs *)

MaxLen == 3   \* longest string or vector converted

\* sample code points: A, e-acute, the euro sign, an emoji
Chars == {65, 233, 8364, 128512}

\* char::len_utf8: the bytes a code point takes in a String
Utf8Len(c) == IF c < 128 THEN 1 ELSE IF c < 2048 THEN 2 ELSE IF c < 65536 THEN 3 ELSE 4

\* String::len: the length in bytes
StringLen(s) == Sum([i \in 1..Len(s) |-> Utf8Len(s[i])])

\* impl Default for Array
ArrayDefault == [shape |-> <<0>>, data |-> <<>>, meta |-> None]

InitConstruct ==
    /\ arr = ArrayDefault
    /\ pre = ArrayDefault
    /\ orig = ArrayDefault
    /\ args = [none |-> TRUE]
    /\ op = "default"
    /\ res = "ok"
    /\ calls = <<>>
    /\ operand = None
    /\ debug \in BOOLEAN

\* Array::new(shape, data): validate_shape asserts in a debug build only
Construct(name, shape, data, a) ==
    /\ op = "default"
    /\ IF debug /\ ~validate_shape(shape, data)
       THEN res' = "panic" /\ arr' = arr
       ELSE res' = "ok" /\ arr' = ArrayNew(shape, data)
    /\ args' = a
    /\ op' = name
    /\ UNCHANGED <<pre, orig, calls, operand, debug>>

\* Array::new called with any shape and buffer; a valid call has them agree
New ==
    \E shape \in Shapes, n \in 0..MaxElems :
       Construct("array_new", shape, Iota(n),
                 [shape |-> shape, data |-> Iota(n), valid |-> Product(shape) = n])

\* Array::scalar and From<T>
Scalar ==
    \E x \in 1..MaxElems : Construct("scalar", <<>>, <<x>>, [data |-> x, valid |-> TRUE])

\* From<EcoVec<T>>, From<CowSlice<T>>, From<&[T]>, From<Vec<bool>>, From<Vec<usize>>
FromVec ==
    \E data \in SeqsUpTo(0..1, MaxLen) :
       Construct("from_vec", <<Len(data)>>, data, [data |-> data, valid |-> TRUE])

\* From<String>: Self::new(s.len(), s.chars().collect())
FromString ==
    \E s \in SeqsUpTo(Chars, MaxLen) :
       Construct("from_string", <<StringLen(s)>>, s, [data |-> s, valid |-> TRUE])

NextConstruct == New \/ Scalar \/ FromVec \/ FromString

SpecConstruct == InitConstruct /\ [][NextConstruct]_vars

\* C1: every array produced by a constructor or an operation on a valid input
\* has a data buffer as long as the product of the dimensions of its shape.
C1_ShapeInvariant ==
    (res = "ok" /\ (op = "array_new" => args.valid)) => Product(arr.shape) = Len(arr.data)

----------------------------------------------------------------------------
(* Properties of rerank *)

\* C11 as stated: for a non-negative target rank r and an array of rank n,
\* r < n merges the outermost n - r + 1 dimensions into one leading dimension
\* and keeps the rest, r >= n only prepends singleton dimensions, and the data
\* is unchanged either way.
C11_RerankMergesOneMore ==
    (op = "rerank" /\ args.irank >= 0) =>
       LET n == Len(pre.shape)
           r == args.irank
       IN /\ res = "ok"
          /\ arr.data = pre.data
          /\ r < n => arr.shape = <<Product(Take(pre.shape, n - r + 1))>>
                                    \o Drop(pre.shape, n - r + 1)
          /\ r >= n => /\ Len(arr.shape) > n
                       /\ Drop(arr.shape, Len(arr.shape) - n) = pre.shape
                       /\ \A i \in 1..(Len(arr.shape) - n) : arr.shape[i] = 1

\* C11 amended: r < n merges the outermost n - r dimensions, so that the result
\* has rank r + 1; r >= n prepends r - n + 1 singleton dimensions; the data is
\* unchanged either way.
C11_RerankMerges ==
    (op = "rerank" /\ args.irank >= 0) =>
       LET n == Len(pre.shape)
           r == args.irank
       IN /\ res = "ok"
          /\ arr.data = pre.data
          /\ Len(arr.shape) = r + 1
          /\ r < n => arr.shape = <<Product(Take(pre.shape, n - r))>> \o Drop(pre.shape, n - r)
          /\ r >= n => arr.shape = Repeat(1, r - n + 1) \o pre.shape

\* a 2 by 3 array reranked to rows of rank 0: both dimensions merge into one
C11_Witness ==
    /\ op = "rerank"
    /\ args.irank = 0
    /\ pre.shape = <<2, 3>>
    /\ arr.shape = <<6>>
    /\ arr.data = <<1, 2, 3, 4, 5, 6>>

----------------------------------------------------------------------------
(* Properties of keep *)

FillRows == row_count(Unwrap(args.fill))

\* e_i, i counted from 0: the count, or the cyclic fill past the counts
EffectiveCount(i) ==
    IF i < Len(args.counts) THEN args.counts[i + 1]
    ELSE Unwrap(args.fill).data[((i - Len(args.counts)) % FillRows) + 1]

KeepExpected ==
    Flatten([i \in 1..row_count(pre) |-> Flatten(Repeat(row_slice(pre, i - 1), EffectiveCount(i - 1)))])

\* a fill the counts can be taken from: natural numbers, at least one row
UsableFill ==
    /\ IsSome(args.fill)
    /\ FillRows > 0
    /\ \A i \in 1..Len(Unwrap(args.fill).data) : Unwrap(args.fill).data[i] >= 0

\* C12: list_keep with counts c, len(c) <= row count, returns the
\* concatenation over the rows i in order of e_i copies of row i, e_i being
\* c[i] or the cyclic fill past the counts, whichever internal path runs; it
\* returns an error when len(c) > row count, and when len(c) < row count and
\* there is no fill.
C12_KeepReplicatesRows ==
    op = "list_keep" =>
       /\ Len(args.counts) > row_count(pre) => res = "err"
       /\ (Len(args.counts) < row_count(pre) /\ args.fill = None) => res = "err"
       /\ (Len(args.counts) = row_count(pre)
             \/ (Len(args.counts) < row_count(pre) /\ UsableFill)) =>
                /\ res = "ok"
                /\ arr.data = KeepExpected
                /\ arr.shape = <<Sum([i \in 1..row_count(pre) |-> EffectiveCount(i - 1)])>>
                                 \o Tail(pre.shape)

\* C13: for every array A and every list of counts in {0, 1} that keep
\* accepts for A, undo_keep(keep(counts, A), counts, A) has the shape and the
\* rows of A.
C13_UndoKeepRestores ==
    (op = "undo_keep" /\ \A i \in 1..Len(args.counts) : args.counts[i] <= 1) =>
       /\ res = "ok"
       /\ arr.shape = orig.shape
       /\ arr.data = orig.data


\* C28: rerank with a negative rank whose magnitude exceeds the rank of the
\* array returns an error and leaves the value unchanged: its shape, data and
\* metadata (label, map-keys and flags) after the failed call are those
\* before it
C28_FailedRerankChangesNothing ==
    (op = "rerank" /\ args.irank < 0 /\ -args.irank > rank(pre))
        => /\ res = "err"
           /\ arr.shape = pre.shape
           /\ arr.data = pre.data
           /\ meta(arr) = meta(pre)

----------------------------------------------------------------------------
(* Specification of windows *)

\* the list of ten elements of the documented examples
TenList == ArrayNew(<<10>>, Iota(10))

InitWindows ==
    /\ arr \in InputArrays \cup {TenList}
    /\ pre = arr
    /\ orig = arr
    /\ args = [none |-> TRUE]
    /\ op = "new"
    /\ res = "ok"
    /\ calls = <<>>
    /\ operand = None
    /\ debug = FALSE

WindowSizes == ((-(MaxDim + 1))..(MaxDim + 1)) \cup {11}
WindowSpecs == SeqsUpTo(WindowSizes, MaxRank)

\* Array::windows on a freshly built array; calls holds the number of
\* elements the copy loop wrote
Windows ==
    /\ op = "new"
    /\ \E size_spec \in WindowSpecs :
          LET r == windows(arr, size_spec)
          IN /\ arr' = r.arr
             /\ res' = r.res
             /\ calls' = <<r.k>>
             /\ operand' = None
             /\ pre' = arr
             /\ orig' = pre
             /\ args' = [size_spec |-> size_spec]
             /\ op' = "windows"
             /\ UNCHANGED debug

NextWindows == Windows

SpecWindows == InitWindows /\ [][NextWindows]_vars

\* a negative size s[k] resolves to d[k] + 1 + s[k]
ResolvedSize(k) ==
    IF args.size_spec[k] >= 0 THEN args.size_spec[k]
    ELSE pre.shape[k] + 1 + args.size_spec[k]

\* C14: for an array of shape d and a size spec s with len(s) <= rank, a zero
\* entry in s is an error; otherwise the result has the shape
\* [max(0, d[k] - s[k] + 1)] ++ [resolved sizes] ++ d[len(s)..] (a resolved size
\* below 0 standing as 0), and it has no elements if a resolved size exceeds
\* its axis or is not positive.  Shape [10] with size 3 gives [8, 3], with
\* size 11 the empty [0, 11].
C14_WindowsShape ==
    (op = "windows" /\ Len(args.size_spec) <= Len(pre.shape)) =>
       LET j == Len(args.size_spec)
       IN IF \E k \in 1..j : args.size_spec[k] = 0 THEN res = "err"
          ELSE /\ res = "ok"
               /\ arr.shape = [k \in 1..j |-> Max(0, pre.shape[k] - ResolvedSize(k) + 1)]
                              \o [k \in 1..j |-> Max(0, ResolvedSize(k))]
                              \o Drop(pre.shape, j)
               /\ (\E k \in 1..j : ResolvedSize(k) > pre.shape[k] \/ ResolvedSize(k) <= 0)
                     => arr.data = <<>>
               /\ (pre = TenList /\ args.size_spec = <<3>>) => arr.shape = <<8, 3>>
               /\ (pre = TenList /\ args.size_spec = <<11>>) =>
                     arr.shape = <<0, 11>> /\ arr.data = <<>>


\* the size spec is valid: it has no more entries than the array has axes and
\* every resolved size lies between 1 and the length of its axis
ValidSizeSpec ==
    /\ Len(args.size_spec) <= Len(pre.shape)
    /\ \A k \in 1..Len(args.size_spec) :
          ResolvedSize(k) >= 1 /\ ResolvedSize(k) <= pre.shape[k]

\* the multi-index of the source element of the output element at idx =
\* (c_0 .. c_{j-1}, w_0 .. w_{j-1}, t ...): (c_0 + w_0 .. c_{j-1} + w_{j-1}, t ...)
WindowSource(idx, j) ==
    [a \in 1..Len(pre.shape) |-> IF a <= j THEN idx[a] + idx[j + a] ELSE idx[j + a]]

\* C26: for a valid size spec the enumeration of corners and offsets ends
\* having written every output element exactly once, and the output element
\* at (c_0 .. c_{j-1}, w_0 .. w_{j-1}, t ...) is the source element at
\* (c_0 + w_0 .. c_{j-1} + w_{j-1}, t ...): the axes beyond the size spec are
\* copied whole
C26_WindowsCopyEveryElement ==
    (op = "windows" /\ ValidSizeSpec) =>
        /\ res = "ok"
        /\ calls = <<Product(arr.shape)>>
        /\ Len(arr.data) = Product(arr.shape)
        /\ \A o \in 0..(Len(arr.data) - 1) :
              arr.data[o + 1] =
                 pre.data[FlatIndex(pre.shape,
                              WindowSource(Unflatten(arr.shape, o), Len(args.size_spec))) + 1]

----------------------------------------------------------------------------
(* Specification of the searches: find, mask, member, index_of, coordinate *)

MaxHay == 4
Elems == {1, 2}

\* arrays of u8 elements with repeats, as searched and searched-for arrays
SearchArrays ==
    UNION {{[shape |-> s, data |-> d, meta |-> None] : d \in [1..Product(s) -> Elems]} :
           s \in {t \in Shapes : Product(t) <= MaxHay}}

\* the haystack of the documented example of find
FiveList == ArrayNew(<<5>>, <<1, 1, 2, 1, 2>>)

\* the needle and the haystack of the documented example of index_of
TwoFives == ArrayNew(<<2>>, <<5, 5>>)
ThreeFives == ArrayNew(<<3>>, <<5, 5, 5>>)

SearchNeedles == SearchArrays \cup {TwoFives}

InitSearch ==
    /\ arr \in SearchArrays \cup {FiveList, ThreeFives}
    /\ pre = arr
    /\ orig = arr
    /\ args = [none |-> TRUE]
    /\ op = "new"
    /\ res = "ok"
    /\ calls = <<>>
    /\ operand = None
    /\ debug = FALSE

\* the state a search for args.needle in the array pre leaves
Searched(name, r, a) ==
    /\ arr' = r.arr
    /\ res' = r.res
    /\ pre' = arr
    /\ orig' = arr
    /\ args' = a
    /\ op' = name
    /\ UNCHANGED <<calls, operand, debug>>

Find ==
    /\ op = "new"
    /\ \E needle \in SearchNeedles, fill \in Fills :
          Searched("find", find(needle, arr, fill), [needle |-> needle, fill |-> fill])

Mask ==
    /\ op = "new"
    /\ \E needle \in SearchNeedles :
          Searched("mask", mask(needle, arr), [needle |-> needle, fill |-> None])

Member ==
    /\ op = "new"
    /\ \E needle \in SearchNeedles :
          Searched("member", member(needle, arr), [needle |-> needle, fill |-> None])

\* index_of for the needle and haystack member was called with; orig and
\* calls keep what member returned
IndexOf ==
    /\ op = "member"
    /\ arr' = index_of(args.needle, pre).arr
    /\ res' = index_of(args.needle, pre).res
    /\ orig' = arr
    /\ calls' = <<res>>
    /\ op' = "index_of"
    /\ UNCHANGED <<pre, args, operand, debug>>

Coordinate ==
    /\ op = "new"
    /\ \E needle \in SearchNeedles :
          Searched("coordinate", coordinate(needle, arr), [needle |-> needle, fill |-> None])

NextSearch == Find \/ Mask \/ Member \/ IndexOf \/ Coordinate

SpecSearch == InitSearch /\ [][NextSearch]_vars

\* the searched-for shape padded with leading 1s to the rank of the haystack
PaddedShape == Repeat(1, rank(pre) - rank(args.needle)) \o args.needle.shape

\* the needle fits the haystack: no deeper, no trailing-aligned dimension larger
Fits == rank(args.needle) <= rank(pre) /\ ~AnyDimGreater(args.needle.shape, pre.shape)

\* the needle occurs with its corner at the flat index c of the haystack:
\* every offset o of the padded shape has c + o inside the haystack, with the
\* needle's element there
OccursAt(c) ==
    \A o \in 0..(element_count(args.needle) - 1) :
        LET k == MaskCell(PaddedShape, pre, flat_to_dims(pre.shape, c), o)
        IN IsSome(k) /\ pre.data[Unwrap(k) + 1] = args.needle.data[o + 1]

\* C15 as stated: for a pattern that fits, find returns an array of the
\* haystack's shape with the boolean flag whose entry at c is 1 exactly when
\* the pattern occurs at c (every offset inside the haystack and the elements
\* equal), and 0 otherwise; a pattern that does not fit, with no fill, gives
\* all 0 in the haystack's shape.
C15_FindMarksOccurrencesAny ==
    (op = "find" /\ (Fits \/ args.fill = None)) =>
        /\ res = "ok"
        /\ arr.shape = pre.shape
        /\ meta(arr).flags = BOOLEAN_FLAG
        /\ \A c \in 0..(element_count(pre) - 1) :
              arr.data[c + 1] = IF Fits /\ OccursAt(c) THEN 1 ELSE 0

\* C15 amended: the same for a pattern with at least one element; a pattern
\* without elements is found nowhere (all 0).
C15_FindMarksOccurrences ==
    (op = "find" /\ (Fits \/ args.fill = None)) =>
        /\ res = "ok"
        /\ arr.shape = pre.shape
        /\ Len(arr.data) = element_count(pre)
        /\ meta(arr).flags = BOOLEAN_FLAG
        /\ \A c \in 0..(element_count(pre) - 1) :
              arr.data[c + 1] =
                 IF Fits /\ element_count(args.needle) > 0 /\ OccursAt(c) THEN 1 ELSE 0

\* a 2 x 2 haystack holding a two-element pattern in one place only
C15_Witness ==
    /\ op = "find"
    /\ pre.shape = <<2, 2>> /\ pre.data = <<1, 1, 1, 2>>
    /\ args.needle.shape = <<2>> /\ args.needle.data = <<1, 2>>
    /\ arr.data = <<0, 0, 1, 0>>

\* the documented example: find of [1, 2] in [1, 1, 2, 1, 2]
FindExample ==
    /\ op = "find"
    /\ pre = FiveList
    /\ args.needle = ArrayNew(<<2>>, <<1, 2>>)

\* C16 as stated: find of the pattern [1, 2] in the haystack [1, 1, 2, 1, 2]
\* yields the mask [0, 0, 1, 0] of length 4, padded with a trailing 0 to the
\* haystack's length 5.
C16_FindExampleAsStated ==
    FindExample => res = "ok" /\ arr.shape = <<5>> /\ arr.data = <<0, 0, 1, 0, 0>>

\* C16 amended: the pattern occurs at the indices 1 and 3, so the mask of
\* length 4 is [0, 1, 0, 1], padded with a trailing 0 to [0, 1, 0, 1, 0].
C16_FindExample ==
    FindExample =>
        /\ res = "ok"
        /\ arr.shape = <<5>>
        /\ Take(arr.data, Len(pre.data) - Len(args.needle.data) + 1) = <<0, 1, 0, 1>>
        /\ arr.data = <<0, 1, 0, 1>> \o <<0>>

C16_Witness == FindExample /\ args.fill = None /\ res = "ok"

\* the flat indices of the cells the needle covers from the corner c
CoveredCells(c) ==
    {Unwrap(MaskCell(PaddedShape, pre, flat_to_dims(pre.shape, c), o)) :
        o \in 0..(element_count(args.needle) - 1)}

\* M is the set of corners that start a match when the corners are scanned in
\* row-major order: the needle occurs there and none of its cells is covered
\* by a match started earlier
GreedyMatches(M) ==
    \A c \in 0..(element_count(pre) - 1) :
        c \in M <=> /\ OccursAt(c)
                    /\ \A e \in M : e < c => CoveredCells(e) \cap CoveredCells(c) = {}

\* C17: mask with rank(needle) <= rank(haystack) returns an array of the
\* haystack's shape; scanning the corners in row-major order, a corner starts
\* a match exactly when every cell the needle would cover is in bounds, equals
\* the needle's element and is not covered by an earlier match; the j-th match
\* labels exactly its cells with j and all other cells are 0.  A needle of
\* greater rank is an error.
C17_MaskLabelsGreedyMatches ==
    op = "mask" =>
        IF rank(args.needle) > rank(pre) THEN res = "err"
        ELSE /\ res = "ok"
             /\ arr.shape = pre.shape
             /\ Len(arr.data) = element_count(pre)
             /\ \E M \in SUBSET (0..(element_count(pre) - 1)) :
                   /\ GreedyMatches(M)
                   /\ \A k \in 0..(element_count(pre) - 1) :
                         /\ \A c \in M : k \in CoveredCells(c) =>
                               arr.data[k + 1] = Cardinality({e \in M : e <= c})
                         /\ (\A c \in M : k \notin CoveredCells(c)) => arr.data[k + 1] = 0

\* [1, 1] in [1, 1, 1]: the corner 1 overlaps the match started at 0 and
\* starts none
C17_Witness ==
    /\ op = "mask"
    /\ pre.shape = <<3>> /\ pre.data = <<1, 1, 1>>
    /\ args.needle.shape = <<2>> /\ args.needle.data = <<1, 1>>
    /\ arr.data = <<1, 1, 0>>

\* member and index_of both returned for the same needle and haystack
BothSucceeded == op = "index_of" /\ res = "ok" /\ calls = <<"ok">>

NotFoundIndex ==
    IF rank(pre) > rank(args.needle) THEN pre.shape[rank(pre) - rank(args.needle)]
    ELSE row_count(pre)

C19_IndexOfFirstEqualRow ==
    (op = "index_of" /\ rank(args.needle) = rank(pre)) =>
        /\ res = "ok"
        /\ Len(arr.data) = row_count(args.needle)
        /\ arr.shape = Take(args.needle.shape, 1)
        /\ \A r \in 1..row_count(args.needle) :
              LET equal(i) == row_slice(pre, i) = row_slice(args.needle, r - 1)
              IN /\ arr.data[r] \in 0..row_count(pre)
                 /\ arr.data[r] < row_count(pre) => equal(arr.data[r])
                 /\ \A i \in 0..(row_count(pre) - 1) : i < arr.data[r] => ~equal(i)
        /\ (args.needle = TwoFives /\ pre = ThreeFives) => arr.data = <<0, 0>>

\* the documented example, and a needle row that occurs twice in the haystack
C19_Witness ==
    /\ op = "index_of"
    /\ args.needle = TwoFives /\ pre = ThreeFives
    /\ arr.data = <<0, 0>>

\* the flat indices of the cells of the needle's shape that equal the needle
Occurrences ==
    {i \in 0..(NumChunks(pre.data, element_count(args.needle)) - 1) :
        Chunk(pre.data, element_count(args.needle), i + 1) = args.needle.data}

\* C20: for a needle of lower rank whose shape is a suffix of the haystack's,
\* coordinate returns the coordinates of the first occurrence (each component
\* below the haystack's dimension, recomposing row-major to the flat index of
\* that occurrence) when the needle occurs, and the haystack's full shape when
\* it does not.
C20_CoordinateOfFirstOccurrence ==
    (op = "coordinate" /\ rank(args.needle) < rank(pre)
       /\ ends_with(pre.shape, args.needle.shape)) =>
        /\ res = "ok"
        /\ IF element_count(args.needle) > 0 /\ Occurrences # {}
           THEN /\ Len(arr.data) = rank(pre) - rank(args.needle)
                /\ \A k \in 1..Len(arr.data) : arr.data[k] < pre.shape[k]
                /\ dims_to_flat(Take(pre.shape, Len(arr.data)), arr.data)
                      = Some(CHOOSE i \in Occurrences : \A j \in Occurrences : i <= j)
           ELSE arr.data = pre.shape

----------------------------------------------------------------------------
(* Specification of the searches on character arrays with wildcards *)

MaxWild == 3
Chars3 == {1, 2, WILDCARD_CHAR}

\* character arrays, the wildcard among their elements
WildArrays ==
    UNION {{[shape |-> s, data |-> d, meta |-> None] : d \in [1..Product(s) -> Chars3]} :
           s \in {t \in Shapes : Product(t) <= MaxWild}}

InitWild ==
    /\ arr \in WildArrays \cup {ThreeFives}
    /\ pre = arr
    /\ orig = arr
    /\ args = [none |-> TRUE]
    /\ op = "new"
    /\ res = "ok"
    /\ calls = <<>>
    /\ operand = None
    /\ debug = FALSE

ProgressiveIndexOf ==
    /\ op = "new"
    /\ \E needle \in WildArrays \cup {TwoFives} :
          Searched("progressive_index_of", progressive_index_of(needle, arr),
                   [needle |-> needle, fill |-> None])

WildMember ==
    /\ op = "new"
    /\ \E needle \in WildArrays :
          Searched("member", member(needle, arr), [needle |-> needle, fill |-> None])

NextWild == ProgressiveIndexOf \/ WildMember \/ IndexOf

SpecWild == InitWild /\ [][NextWild]_vars

\* the rows of the needle and of the haystack of the last search
NeedleRows == rows(args.needle)
HayRows == rows(pre)

\* C21: for equal-rank needle and haystack, progressive_index_of gives each
\* haystack row to at most one needle row: the indices below
\* haystack.row_count() are pairwise distinct, the j-th needle row equal to a
\* value gets the index of the j-th haystack row equal to it, a needle row
\* with no unused equal haystack row gets haystack.row_count(); and
\* progressive_index_of([5, 5], [5, 5, 5]) = [0, 1].
C21_ProgressiveUsesRowsOnce ==
    (op = "progressive_index_of" /\ rank(args.needle) = rank(pre)) =>
        /\ res = "ok"
        /\ Len(arr.data) = Len(NeedleRows)
        /\ \A r \in 1..Len(arr.data) : arr.data[r] \in 0..Len(HayRows)
        /\ \A r, q \in 1..Len(arr.data) :
              (r # q /\ arr.data[r] < Len(HayRows)) => arr.data[r] # arr.data[q]
        /\ \A r \in 1..Len(arr.data) :
              LET unused == {i \in 1..Len(HayRows) :
                                /\ RowEq(NeedleRows[r], HayRows[i])
                                /\ \A q \in 1..(r - 1) : arr.data[q] # i - 1}
              IN IF unused = {} THEN arr.data[r] = Len(HayRows)
                 ELSE arr.data[r] + 1 \in unused /\ \A i \in unused : arr.data[r] + 1 <= i
        /\ (args.needle = TwoFives /\ pre = ThreeFives) => arr.data = <<0, 1>>

F64s == {0, 1, NEG_ZERO, NAN, WILDCARD_NAN}

\* C30: equality and hashing of elements agree for every element kind, the
\* wildcards included: elements that are array_eq feed the same input to the
\* hasher; hence the hash-set paths of member and index_of for equal ranks
\* report a match for exactly the rows that are element-wise array_eq.
C30_HashAgreesWithEq ==
    /\ \A a, b \in Chars3 : array_eq(a, b) => array_hash(a) = array_hash(b)
    /\ \A a, b \in F64s : f64_array_eq(a, b) => f64_array_hash(a) = f64_array_hash(b)
    /\ (op = "member" /\ rank(args.needle) = rank(pre)) =>
          \A r \in 1..row_count(args.needle) :
              arr.data[r] = 1 <=>
                 \E i \in 1..row_count(pre) :
                     SliceEq(row_slice(pre, i - 1), row_slice(args.needle, r - 1))
    /\ (op = "index_of" /\ rank(args.needle) = rank(pre)) =>
          \A r \in 1..row_count(args.needle) :
              arr.data[r] < row_count(pre) <=>
                 \E i \in 1..row_count(pre) :
                     SliceEq(row_slice(pre, i - 1), row_slice(args.needle, r - 1))


-----------------------------------------------------------------------------
(* matrix_mul: src/src/algorithm/dyadic/mod.rs *)

\* the row count above which matrix_mul hands the rows to the thread pool
PAR_THRESHOLD == 100

\* Shape::row: the shape without its leading axis
shape_row(shape) == Drop(shape, 1)

\* shape_prefixes_match: the shapes agree wherever both have an axis
shape_prefixes_match(a, b) == \A i \in 1..Min(Len(a), Len(b)) : a[i] = b[i]

\* prod_shape: the longer of the two row shapes, self's when they tie
ProdShape(a, b) ==
    IF Len(shape_row(a.shape)) >= Len(shape_row(b.shape))
    THEN shape_row(a.shape) ELSE shape_row(b.shape)

\* prod_elems: the elements of prod_shape.row()
ProdElems(a, b) == Product(shape_row(ProdShape(a, b)))

\* the shape of a product of rows by columns: self's row count, then other's
\* row shape
ResultShapeByColumns(a, b) == <<row_count(a)>> \o shape_row(b.shape)

\* result_shape: [a.row_count(), b.row_count()] extended by prod_row_shape
ResultShape(a, b) == <<row_count(a), row_count(b)>> \o shape_row(ProdShape(a, b))

\* bin_pervade_recursive with pervade::mul::num_num into prod_row of n
\* elements: each element of the operand with the shorter shape is paired
\* with the whole block of the other operand under it
PervadeMul(a_row, b_row, n) ==
    [i \in 1..n |-> a_row[((i - 1) \div (n \div Len(a_row))) + 1]
                    * b_row[((i - 1) \div (n \div Len(b_row))) + 1]]

\* the loop over rest.chunks_exact(prod_elems): every whole chunk is added
\* onto sum element by element
RECURSIVE SumChunks(_, _, _)
SumChunks(sum, rest, n) ==
    IF Len(rest) < n THEN sum
    ELSE SumChunks([j \in 1..n |-> sum[j] + rest[j]], Drop(rest, n), n)

\* one b_row of the closure inner: prod_row.split_at_mut(prod_elems) is out
\* of range when prod_row is shorter than prod_elems
InnerSum(prod_row, prod_elems) ==
    IF Len(prod_row) < prod_elems THEN [ok |-> FALSE, sum |-> <<>>]
    ELSE [ok |-> TRUE,
          sum |-> SumChunks(Take(prod_row, prod_elems), Drop(prod_row, prod_elems),
                            prod_elems)]

\* the sums the closure inner forms, one for each row of b
InnerSums(a, b, a_row) ==
    [j \in 1..row_count(b) |->
        InnerSum(PervadeMul(a_row, row_slice(b, j - 1), Product(ProdShape(a, b))),
                 ProdElems(a, b))]

\* res_row once every sum is copied to res_row[i..i + prod_elems], i advancing
\* by prod_elems; a call that panics leaves nothing to the caller
InnerRow(sums, prod_elems) ==
    IF \A j \in 1..Len(sums) : sums[j].ok
    THEN [ok |-> TRUE,
          row |-> [k \in 1..Len(sums) * prod_elems |->
                      sums[((k - 1) \div prod_elems) + 1].sum[((k - 1) % prod_elems) + 1]]]
    ELSE [ok |-> FALSE, row |-> <<>>]

\* the closure inner: the output row of one row of a
inner(a, b, a_row) == InnerRow(InnerSums(a, b, a_row), ProdElems(a, b))

\* a res_row written over the first chunk of result_data, whichever row of a
\* it belongs to
WriteFirstResRow(data, i, row) ==
    [k \in 1..Len(data) |-> IF k <= Len(row) THEN row[k] ELSE data[k]]

\* the res_row of a's i-th row (i counts from 0) overwritten in result_data:
\* the i-th chunk of b.row_count() * prod_elems elements
WriteResRow(data, i, row) ==
    [k \in 1..Len(data) |->
        IF k > i * Len(row) /\ k <= (i + 1) * Len(row) THEN row[k - i * Len(row)]
        ELSE data[k]]

\* the res_rows iter.for_each has inner fill, one for each row of a
ForEachRows(a, b) == [i \in 1..row_count(a) |-> inner(a, b, row_slice(a, i - 1))]

\* result_data after iter.for_each: the i-th chunk of chunk elements holds the
\* res_row of a's i-th row
ForEach(rs, chunk) ==
    IF \A i \in 1..Len(rs) : rs[i].ok
    THEN [ok |-> TRUE,
          data |-> [k \in 1..Len(rs) * chunk |->
                       rs[((k - 1) \div chunk) + 1].row[((k - 1) % chunk) + 1]]]
    ELSE [ok |-> FALSE, data |-> <<>>]

\* result_data as allocated: zeros
ResultZeros(a, b) == Repeat(0, row_count(a) * row_count(b) * ProdElems(a, b))

\* matrix_mul refuses operands whose row shapes do not match
MatrixMulRefuses(a, b) == ~shape_prefixes_match(shape_row(a.shape), shape_row(b.shape))

\* chunks_exact_mut(b.row_count() * prod_elems) with a chunk size of 0
MatrixMulZeroChunk(a, b) == row_count(b) * ProdElems(a, b) = 0

\* the parallel path is taken
MatrixMulParallel(a, b) == row_count(a) > PAR_THRESHOLD \/ row_count(b) > PAR_THRESHOLD

MatrixMulDone(a, b, r) ==
    IF r.ok THEN [res |-> "ok", arr |-> ArrayNew(ResultShape(a, b), r.data)]
    ELSE [res |-> "panic", arr |-> a]

\* Array::matrix_mul(other, env) with the rows taken in order
matrix_mul(a, b) ==
    IF MatrixMulRefuses(a, b) THEN [res |-> "err", arr |-> a]
    ELSE IF MatrixMulZeroChunk(a, b) THEN [res |-> "panic", arr |-> a]
    ELSE MatrixMulDone(a, b, ForEach(ForEachRows(a, b), row_count(b) * ProdElems(a, b)))


-----------------------------------------------------------------------------
(* matrix_mul on numeric arrays; the rows of self are handed to the threads
   of the pool when either operand has more than PAR_THRESHOLD rows *)

\* the numeric array of shape s whose i-th element is (i * k) % 3
NumArray(s, k) == ArrayNew(s, [i \in 1..Product(s) |-> (i * k) % 3])

MatArrays == {NumArray(s, k) : s \in Shapes, k \in {1, 2}}

\* operands around the threshold: row counts PAR_THRESHOLD and one more
ThresholdPairs ==
    {<<NumArray(<<m>>, 1), NumArray(<<1>>, 2)>> : m \in {PAR_THRESHOLD, PAR_THRESHOLD + 1}}
    \cup {<<NumArray(<<2, 1>>, 1), NumArray(<<n, 1>>, 2)>> : n \in {PAR_THRESHOLD, PAR_THRESHOLD + 1}}
    \cup {<<NumArray(<<PAR_THRESHOLD + 1, 0>>, 1), NumArray(<<1, 0>>, 1)>>}

\* the threads of the pool
Workers == {1, 2}

\* the second operand
other == Unwrap(operand)

InitMatMul ==
    /\ \E p \in (MatArrays \X MatArrays) \cup ThresholdPairs :
          /\ arr = p[1]
          /\ operand = Some(p[2])
    /\ pre = arr
    /\ orig = arr
    /\ args = [next |-> 0, par |-> FALSE]
    /\ op = "new"
    /\ res = "ok"
    /\ calls = [w \in Workers |-> None]
    /\ debug = FALSE

\* matrix_mul returning at once, or taking the rows in order on this thread
MatrixMul ==
    /\ op = "new"
    /\ ~(~MatrixMulRefuses(arr, other) /\ ~MatrixMulZeroChunk(arr, other)
           /\ MatrixMulParallel(arr, other))
    /\ arr' = matrix_mul(arr, other).arr
    /\ res' = matrix_mul(arr, other).res
    /\ pre' = arr
    /\ op' = "matrix_mul"
    /\ UNCHANGED <<args, calls, orig, operand, debug>>

\* matrix_mul up to par_bridge().for_each: result_data is allocated
MatrixMulFork ==
    /\ op = "new"
    /\ ~MatrixMulRefuses(arr, other)
    /\ ~MatrixMulZeroChunk(arr, other)
    /\ MatrixMulParallel(arr, other)
    /\ arr' = ArrayNew(ResultShape(arr, other), ResultZeros(arr, other))
    /\ pre' = arr
    /\ op' = "par_bridge"
    /\ args' = [next |-> 0, par |-> TRUE]
    /\ UNCHANGED <<res, calls, orig, operand, debug>>

\* a thread without work takes the next (a_row, res_row) from the iterator
WorkerTake(w) ==
    /\ op = "par_bridge"
    /\ calls[w] = None
    /\ args.next < row_count(pre)
    /\ calls' = [calls EXCEPT ![w] = Some(args.next)]
    /\ args' = [args EXCEPT !.next = args.next + 1]
    /\ UNCHANGED <<arr, pre, op, res, orig, operand, debug>>

\* what a thread's call of inner leaves: its res_row written, or the panic
\* of the call, which for_each passes on to the caller of matrix_mul
WorkerWritten(w, i, r) ==
    IF r.ok
    THEN /\ arr' = [arr EXCEPT !.data = WriteResRow(arr.data, i, r.row)]
         /\ calls' = [calls EXCEPT ![w] = None]
         /\ UNCHANGED <<op, res>>
    ELSE /\ res' = "panic"
         /\ op' = "matrix_mul"
         /\ UNCHANGED <<arr, calls>>

\* a thread runs inner on the pair it holds
WorkerWrite(w) ==
    /\ op = "par_bridge"
    /\ calls[w] # None
    /\ WorkerWritten(w, Unwrap(calls[w]), inner(pre, other, row_slice(pre, Unwrap(calls[w]))))
    /\ UNCHANGED <<pre, args, orig, operand, debug>>

\* for_each returns once the iterator is exhausted and every call is over
MatrixMulJoin ==
    /\ op = "par_bridge"
    /\ args.next = row_count(pre)
    /\ \A w \in Workers : calls[w] = None
    /\ op' = "matrix_mul"
    /\ UNCHANGED <<arr, pre, args, res, calls, orig, operand, debug>>

NextMatMul ==
    \/ MatrixMul
    \/ MatrixMulFork
    \/ \E w \in Workers : WorkerTake(w)
    \/ \E w \in Workers : WorkerWrite(w)
    \/ MatrixMulJoin

SpecMatMul == InitMatMul /\ [][NextMatMul]_vars

\* C22: for all m, k and n, matrix_mul of an array of shape [m, k] by an array
\* of shape [k, n] succeeds and yields an array of shape [m, n]
C22_MatrixMulShapeAsStated ==
    (op = "matrix_mul" /\ Len(pre.shape) = 2 /\ Len(other.shape) = 2
        /\ pre.shape[2] = other.shape[1])
    => (res = "ok" /\ arr.shape = <<pre.shape[1], other.shape[2]>>)

\* C22 as amended: matrix_mul pairs the rows of both operands: for shapes
\* [m, k] and [n, j] it returns the error for operands it cannot multiply
\* exactly when k # j, it succeeds when k = j with k >= 1 and n >= 1, and an
\* array it returns has the shape [m, n]
C22_MatrixMulShape ==
    (op = "matrix_mul" /\ Len(pre.shape) = 2 /\ Len(other.shape) = 2)
    => /\ res = "err" <=> pre.shape[2] # other.shape[2]
       /\ (pre.shape[2] = other.shape[2] /\ pre.shape[2] >= 1 /\ other.shape[1] >= 1)
             => res = "ok"
       /\ res = "ok" => arr.shape = <<pre.shape[1], other.shape[1]>>

C22_Witness ==
    /\ op = "matrix_mul"
    /\ res = "ok"
    /\ pre.shape = <<2, 3>>
    /\ other.shape = <<1, 3>>
    /\ arr.shape = <<2, 1>>


\* the rows of self whose call of inner returns in this step
RowsWritten == {i \in 0..(row_count(pre) - 1) :
                   \E w \in Workers : calls[w] = Some(i) /\ calls'[w] = None}

\* the k-th element of result_data lies in the output slice of self's i-th row
InResRow(k, i) ==
    /\ k > i * row_count(other) * ProdElems(pre, other)
    /\ k <= (i + 1) * row_count(other) * ProdElems(pre, other)

\* C23: matrix_mul takes the parallel path exactly when self or other has
\* more than 100 rows; in every interleaving of the threads a step changes
\* result_data only inside the output slices of the rows whose call of inner
\* returns in it; and what the parallel path returns is what taking the rows
\* in order returns
C23_ParallelAgreesWithSequential ==
    [][/\ (op = "new" /\ op' # "new" /\ ~MatrixMulRefuses(arr, other)
             /\ ~MatrixMulZeroChunk(arr, other))
          => (op' = "par_bridge" <=> (row_count(arr) > 100 \/ row_count(other) > 100))
       /\ op = "par_bridge"
          => /\ Len(arr'.data) = Len(arr.data)
             /\ \A k \in 1..Len(arr.data) :
                   arr'.data[k] # arr.data[k] => \E i \in RowsWritten : InResRow(k, i)
       /\ (op = "par_bridge" /\ op' = "matrix_mul")
          => /\ res' = matrix_mul(pre, other).res
             /\ res' = "ok" => arr' = matrix_mul(pre, other).arr]_vars

C23_Witness ==
    /\ op = "matrix_mul"
    /\ args.par
    /\ res = "ok"
    /\ row_count(pre) = 101
    /\ arr.shape = <<101, 1>>
    /\ arr.data[1] = 2
    /\ arr.data[101] = 4


\* the operation returned an array that fits its shape, or an error
ReturnedOrRefused ==
    /\ res \in {"ok", "err"}
    /\ res = "ok" => validate_shape(arr.shape, arr.data)

\* C27: none of windows, coordinate and matrix_mul reaches an internal fault
\* on an input with an axis of length 0: windows with a valid size spec on an
\* array with an axis of length 0 beyond the windowed ones, coordinate with a
\* needle of lower rank whose shape contains a 0, and matrix_mul with a right
\* operand of 0 rows each return a result that fits its shape, or an error
C27_NoInternalFault ==
    /\ (op = "windows" /\ Len(args.size_spec) < Len(pre.shape)
          /\ (\A k \in 1..Len(args.size_spec) :
                 ResolvedSize(k) >= 1 /\ ResolvedSize(k) <= pre.shape[k])
          /\ (\E t \in (Len(args.size_spec) + 1)..Len(pre.shape) : pre.shape[t] = 0))
       => ReturnedOrRefused
    /\ (op = "coordinate" /\ rank(args.needle) < rank(pre)
          /\ (\E k \in 1..rank(args.needle) : args.needle.shape[k] = 0))
       => ReturnedOrRefused
    /\ (op = "matrix_mul" /\ row_count(other) = 0)
       => ReturnedOrRefused


-----------------------------------------------------------------------------
(* The ordering on arrays: src/src/array.rs *)

\* Ord::cmp on integers
IntCmp(x, y) == IF x < y THEN "Less" ELSE IF x > y THEN "Greater" ELSE "Equal"

\* Ordering::reverse
OrderingReverse(o) == IF o = "Less" THEN "Greater" ELSE IF o = "Greater" THEN "Less" ELSE o

\* ArrayCmp::array_cmp on u8 and char elements: self.cmp(other)
array_cmp(a, b) == IntCmp(a, b)

\* Shape's cmp: the dimensions compared in order, a proper prefix being less
RECURSIVE ShapeCmp(_, _)
ShapeCmp(s, t) ==
    IF s = <<>> /\ t = <<>> THEN "Equal"
    ELSE IF s = <<>> THEN "Less"
    ELSE IF t = <<>> THEN "Greater"
    ELSE IF Head(s) # Head(t) THEN IntCmp(Head(s), Head(t))
    ELSE ShapeCmp(Tail(s), Tail(t))

\* the first comparison of the zipped elements from position i on that is
\* not Equal, else the comparison of the shapes
RECURSIVE DataCmp(_, _, _)
DataCmp(self, that, i) ==
    IF i > Min(Len(self.data), Len(that.data)) THEN ShapeCmp(self.shape, that.shape)
    ELSE IF array_cmp(self.data[i], that.data[i]) # "Equal"
    THEN array_cmp(self.data[i], that.data[i])
    ELSE DataCmp(self, that, i + 1)

\* Array::partial_cmp, which Ord::cmp unwraps
partial_cmp(self, that) ==
    IF rank(self) # rank(that) THEN IntCmp(rank(self), rank(that))
    ELSE DataCmp(self, that, 1)

-----------------------------------------------------------------------------
(* Specification of the comparisons among three arrays of one element kind *)

MaxOrd == 3
OrdArrays ==
    UNION {{ArrayNew(s, d) : d \in [1..Product(s) -> Elems]} :
              s \in {t \in Shapes : Product(t) <= MaxOrd}}

InitOrder ==
    /\ arr \in OrdArrays
    /\ pre = arr
    /\ orig = arr
    /\ args = [none |-> TRUE]
    /\ op = "new"
    /\ res = "ok"
    /\ calls = <<>>
    /\ operand = None
    /\ debug = FALSE

\* cmp(a, b), cmp(b, a), cmp(b, c) and cmp(a, c) for the array a at hand
Cmp ==
    /\ op = "new"
    /\ \E b \in OrdArrays, c \in OrdArrays :
          /\ args' = [b |-> b, c |-> c]
          /\ calls' = <<partial_cmp(arr, b), partial_cmp(b, arr),
                        partial_cmp(b, c), partial_cmp(arr, c)>>
    /\ op' = "cmp"
    /\ UNCHANGED <<arr, pre, res, orig, operand, debug>>

NextOrder == Cmp

SpecOrder == InitOrder /\ [][NextOrder]_vars

\* C29: the ordering on arrays of one element kind is a total order: for all
\* arrays a, b and c, a < b and b < c imply a < c, and cmp(a, b) is the
\* reverse of cmp(b, a)
C29_ArrayOrderIsTotal ==
    op = "cmp" =>
        /\ (calls[1] = "Less" /\ calls[3] = "Less") => calls[4] = "Less"
        /\ calls[1] = OrderingReverse(calls[2])


-----------------------------------------------------------------------------
(* Shared buffers and shared metadata: src/src/array.rs *)

(* A store s holds the arrays alive (s.handles), the buffers they point into
   (s.bufs) and the metadata blocks (s.metas).  A handle is an Array value:
   its shape, its CowSlice (the buffer buf and the range of len elements
   from start) and its Option<Arc<ArrayMeta>> (meta, 0 for None). *)

\* the reference count of buffer b is 1
is_unique_always(s, b) == TRUE

is_unique(s, b) == Cardinality({i \in 1..Len(s.handles) : s.handles[i].buf = b}) = 1

\* the reference count of the metadata block m is 1
MetaUnique(s, m) == Cardinality({i \in 1..Len(s.handles) : s.handles[i].meta = m}) = 1

\* the elements a handle's slice covers
SliceOf(s, h) ==
    SubSeq(s.bufs[s.handles[h].buf], s.handles[h].start + 1,
           s.handles[h].start + s.handles[h].len)

\* what is observed through handle h: shape, data and metadata
View(s, h) ==
    [shape |-> s.handles[h].shape,
     data |-> SliceOf(s, h),
     meta |-> IF s.handles[h].meta = 0 THEN DEFAULT_META
              ELSE s.metas[s.handles[h].meta]]

\* CowSlice::as_mut_slice: a buffer that is shared is first copied, the
\* handle then owning the copy of its slice
as_mut_slice(s, h) ==
    IF is_unique(s, s.handles[h].buf) THEN s
    ELSE [s EXCEPT !.bufs = Append(@, SliceOf(s, h)),
                   !.handles[h] = [@ EXCEPT !.buf = Len(s.bufs) + 1, !.start = 0]]

\* the slice of handle h, which owns its buffer, overwritten with data
WriteSlice(s, h, data) ==
    [s EXCEPT !.bufs[s.handles[h].buf] =
        [k \in 1..Len(@) |->
            IF k > s.handles[h].start /\ k <= s.handles[h].start + s.handles[h].len
            THEN data[k - s.handles[h].start] ELSE @[k]]]

\* Array::get_meta_mut: self.meta.as_mut().map(Arc::make_mut)
get_meta_mut(s, h) ==
    IF s.handles[h].meta = 0 \/ MetaUnique(s, s.handles[h].meta) THEN s
    ELSE [s EXCEPT !.metas = Append(@, s.metas[s.handles[h].meta]),
                   !.handles[h] = [@ EXCEPT !.meta = Len(s.metas) + 1]]

\* Array::meta_mut_impl: get_or_insert_with(Default::default), Arc::make_mut
meta_mut(s, h) ==
    IF s.handles[h].meta = 0
    THEN [s EXCEPT !.metas = Append(@, DEFAULT_META),
                   !.handles[h] = [@ EXCEPT !.meta = Len(s.metas) + 1]]
    ELSE get_meta_mut(s, h)

\* the metadata block of handle h, which owns it, replaced
WriteMeta(s, h, m) == [s EXCEPT !.metas[s.handles[h].meta] = m]

\* Array::take_label, on the store
TakeLabelIn(s, h) ==
    IF s.handles[h].meta = 0 THEN s
    ELSE WriteMeta(s, h, [s.metas[s.handles[h].meta] EXCEPT !.label = None])

take_label(s, h) == TakeLabelIn(get_meta_mut(s, h), h)

\* Array::take_map_keys, on the store
TakeMapKeysIn(s, h) ==
    IF s.handles[h].meta = 0 THEN s
    ELSE WriteMeta(s, h, [s.metas[s.handles[h].meta] EXCEPT !.map_keys = None])

TakeMapKeysOf(s, h) == TakeMapKeysIn(get_meta_mut(s, h), h)

\* Array::reset_meta_flags, on the store
ResetFlagsIn(s, h) == WriteMeta(s, h, [s.metas[s.handles[h].meta] EXCEPT !.flags = 0])

ResetMetaFlagsOf(s, h) ==
    IF s.handles[h].meta = 0 THEN s ELSE ResetFlagsIn(meta_mut(s, h), h)

\* meta_mut().flags = flags
SetFlagsIn(s, h, flags) == WriteMeta(s, h, [s.metas[s.handles[h].meta] EXCEPT !.flags = flags])

SetFlags(s, h, flags) == SetFlagsIn(meta_mut(s, h), h, flags)

\* Clone for Array: the new handle shares the buffer and the metadata block
clone(s, h) == [s EXCEPT !.handles = Append(@, s.handles[h])]

\* Array::row of an array of rank 1 or more: a handle on the row's range of
\* the same buffer, without metadata unless self has flags
RowSliced(s, h, row) ==
    [s EXCEPT !.handles =
        Append(@, [shape |-> Tail(s.handles[h].shape),
                   buf |-> s.handles[h].buf,
                   start |-> s.handles[h].start + row * Product(Tail(s.handles[h].shape)),
                   len |-> Product(Tail(s.handles[h].shape)),
                   meta |-> 0])]

RowFlagged(s, n, flags) == IF flags # 0 THEN SetFlags(s, n, flags) ELSE s

\* Array::row
row(s, h, r) ==
    IF s.handles[h].shape = <<>>
    THEN take_label(TakeMapKeysOf(clone(s, h), Len(s.handles) + 1), Len(s.handles) + 1)
    ELSE RowFlagged(RowSliced(s, h, r), Len(s.handles) + 1, View(s, h).meta.flags)

\* Array::row_slice_mut(row), the first element of the slice being set to v
RowSliceWritten(s, h, r, v) ==
    WriteSlice(s, h,
        [k \in 1..s.handles[h].len |->
            IF k = r * Product(Drop(s.handles[h].shape, 1)) + 1 THEN v ELSE SliceOf(s, h)[k]])

row_slice_mut(s, h, r, v) == RowSliceWritten(as_mut_slice(s, h), h, r, v)

\* Array::as_scalar_mut, the scalar being set to v
AsScalarWritten(s, h, v) == WriteSlice(s, h, <<v>>)

as_scalar_mut(s, h, v) == AsScalarWritten(as_mut_slice(s, h), h, v)

\* Array::rotate by one offset: the data through as_mut_slice, then the
\* map-keys through map_keys_mut
RotateKeysIn(s, h, by) ==
    WriteMeta(s, h, [s.metas[s.handles[h].meta] EXCEPT
                        !.map_keys = Some(MapKeysRotate(Unwrap(@), by))])

RotateKeysOf(s, h, by) ==
    IF IsSome(View(s, h).meta.map_keys) THEN RotateKeysIn(get_meta_mut(s, h), h, by) ELSE s

RotateData(s, h, by) == WriteSlice(s, h, rotate(<<by>>, s.handles[h].shape, SliceOf(s, h)))

RotateOf(s, h, by) == RotateKeysOf(RotateData(as_mut_slice(s, h), h, by), h, by)


-----------------------------------------------------------------------------
(* Specification of clones, rows and writes in place on shared arrays: calls
   holds the arrays alive, operand the buffers and the metadata blocks, and
   args.n counts the operations made *)

MaxHandles == 3
MaxOps == 4
NewValue == 9

\* the store of the state
store == [handles |-> calls, bufs |-> operand.bufs, metas |-> operand.metas]

SharedMetas ==
    {<<>>, <<[label |-> Some("lbl"), flags |-> BOOLEAN_FLAG, map_keys |-> Some(<<1, 2>>)]>>}

InitShare ==
    /\ \E sh \in {<<>>, <<2>>, <<2, 1>>}, m \in SharedMetas :
          /\ calls = <<[shape |-> sh, buf |-> 1, start |-> 0, len |-> Product(sh),
                        meta |-> Len(m)]>>
          /\ operand = [bufs |-> <<Iota(Product(sh))>>, metas |-> m]
    /\ arr = View(store, 1)
    /\ pre = arr
    /\ orig = arr
    /\ args = [h |-> 1, write |-> FALSE, shared |-> FALSE, n |-> 0]
    /\ op = "new"
    /\ res = "ok"
    /\ debug = FALSE

\* the state an operation through handle h leaves; write tells a mutation
\* from the making of a new handle
Shared(name, s, h, write) ==
    /\ args.n < MaxOps
    /\ calls' = s.handles
    /\ operand' = [bufs |-> s.bufs, metas |-> s.metas]
    /\ arr' = View(s, h)
    /\ pre' = View(store, h)
    /\ args' = [h |-> h, write |-> write, n |-> args.n + 1,
                shared |-> \E j \in 1..Len(calls) :
                              /\ j # h
                              /\ \/ calls[j].buf = calls[h].buf
                                 \/ (calls[h].meta # 0 /\ calls[j].meta = calls[h].meta)]
    /\ op' = name
    /\ UNCHANGED <<res, orig, debug>>

Clone ==
    /\ Len(calls) < MaxHandles
    /\ \E h \in 1..Len(calls) : Shared("clone", clone(store, h), h, FALSE)

Row ==
    /\ Len(calls) < MaxHandles
    /\ \E h \in 1..Len(calls) :
          \E r \in 0..(row_count(calls[h]) - 1) : Shared("row", row(store, h, r), h, FALSE)

RowSliceMut ==
    \E h \in 1..Len(calls) :
       \E r \in 0..(row_count(calls[h]) - 1) :
          /\ row_len(calls[h]) > 0
          /\ Shared("row_slice_mut", row_slice_mut(store, h, r, NewValue), h, TRUE)

AsScalarMut ==
    \E h \in 1..Len(calls) :
       /\ calls[h].shape = <<>>
       /\ Shared("as_scalar_mut", as_scalar_mut(store, h, NewValue), h, TRUE)

RotateShared ==
    \E h \in 1..Len(calls) :
       /\ calls[h].shape # <<>>
       /\ calls[h].len > 0
       /\ Shared("rotate", RotateOf(store, h, 1), h, TRUE)

MetaMut ==
    \E h \in 1..Len(calls), flags \in {0, BOOLEAN_FLAG} :
       Shared("meta_mut", SetFlags(store, h, flags), h, TRUE)

TakeLabel ==
    \E h \in 1..Len(calls) : Shared("take_label", take_label(store, h), h, TRUE)

TakeMapKeys ==
    \E h \in 1..Len(calls) : Shared("take_map_keys", TakeMapKeysOf(store, h), h, TRUE)

ResetMetaFlags ==
    \E h \in 1..Len(calls) : Shared("reset_meta_flags", ResetMetaFlagsOf(store, h), h, TRUE)

NextShare ==
    \/ Clone
    \/ Row
    \/ RowSliceMut
    \/ AsScalarMut
    \/ RotateShared
    \/ MetaMut
    \/ TakeLabel
    \/ TakeMapKeys
    \/ ResetMetaFlags

SpecShare == InitShare /\ [][NextShare]_vars

\* what is observed through handle h in the next state
ViewNext(h) ==
    View([handles |-> calls', bufs |-> operand'.bufs, metas |-> operand'.metas], h)

\* C24: in any sequence of clones, rows and writes in place, a write through
\* one handle (row_slice_mut, as_scalar_mut, rotate, meta_mut, take_label,
\* take_map_keys, reset_meta_flags) never changes the shape, the data or the
\* metadata observed through another handle, and making a clone or a row
\* changes what no handle observes
C24_WritesArePrivate ==
    [][\A j \in 1..Len(calls) :
          (args'.write /\ j = args'.h) \/ ViewNext(j) = View(store, j)]_vars

\* a write through a handle that shared its buffer or its metadata block: it
\* observes the new value, another handle of the same shape still the old
C24_Witness ==
    /\ op = "row_slice_mut"
    /\ args.shared
    /\ arr.data # pre.data
    /\ \E j \in 1..Len(calls) :
          /\ j # args.h
          /\ View(store, j).shape = arr.shape
          /\ View(store, j).data = pre.data

====
